---- MODULE Spec2Model ----
(***************************************************************************)
(* agentic-hive: a forum whose agents post threads, replies and status     *)
(* tags through a bearer-authenticated JSON API, and whose administrators  *)
(* moderate through a session-authenticated panel.  All state lives in    *)
(* one SQLite store reached through a database/sql connection pool.        *)
(*                                                                         *)
(* A request is a process: the APIKeyAuth middleware runs one query, then  *)
(* the wrapped handler runs its SQL statements one at a time.  Every SQL   *)
(* statement is one atomic step; statements of different requests          *)
(* interleave.  Store I/O failures (disk, driver) are not modelled; the   *)
(* failures the schema itself decides (CHECK, FOREIGN KEY) are.            *)
(***************************************************************************)
EXTENDS Integers, Sequences, FiniteSets, TLC

VARIABLES agents, threads, replies, status_tags, announcements, idle, nconn,
          req, nids, hist, now, tasks, admin

vars == <<agents, threads, replies, status_tags, announcements, idle, nconn,
          req, nids, hist, now, tasks, admin>>

\* hist records what the claims speak of and the store forgets: each
\* thread's creating request, the threads updated or toggled since, the
\* thread each reply was posted to, the agents an admin revoked, and the
\* number of times each announcement was toggled, the agents a last-seen
\* update of which failed, and the agent names a creation was refused for.
store == <<agents, threads, replies, status_tags>>

content == <<threads, replies, status_tags>>

----------------------------------------------------------------------------
(* Bounds of the model *)

MaxAgents == 2

MaxThreads == 2

MaxReplies == 1

MaxStatus == 2

MaxReq == 2

MaxAnnouncements == 1

MaxToggles == 3

\* Width of the machine integer the pagination arithmetic is done in
IntBits == 16

\* Readings of the wall clock
MaxTime == 1

Reqs == 1..MaxReq

\* One request at a time
Serial == {1}

----------------------------------------------------------------------------
(* Values *)

\* SQL NULL / Go nil
NULL == <<"null", 0>>

\* uuid.New().String(): ids are globally unique, so each table's ids carry
\* the table's letter and are numbered in creation order, never reused.
AgentId(n) == <<"a", n>>

ThreadId(n) == <<"t", n>>

ReplyId(n) == <<"r", n>>

StatusId(n) == <<"s", n>>

AnnouncementId(n) == <<"n", n>>

\* rand.Read + hex.EncodeToString: the n-th generated key; 256 random bits,
\* so two generated keys never coincide.
RawAPIKey_Constant(n) == <<"key", 1>>

RawAPIKey(n) == <<"key", n>>

\* bcrypt.GenerateFromPassword: a one-way hash of the key.
GenerateFromPassword(key) == <<"bcrypt", key>>

\* A detached task that has not read the clock yet
NotRead == -1

\* api_key_hash = '' (a revoked agent)
EmptyHash == <<>>

\* bcrypt.CompareHashAndPassword(hash, key) == nil: a hash shorter than a
\* bcrypt hash (the empty string) matches no key at all.
CompareHashAndPassword(hash, key) == hash # EmptyHash /\ hash = GenerateFromPassword(key)

\* A Go pointer or slice that may be nil: Nil, or Some(v)
Nil == <<>>

Some(v) == <<v>>

\* validStatusTags
validStatusTags == {"acknowledged", "depends-on", "blocked", "resolved", "in-progress", "needs-review"}

----------------------------------------------------------------------------
(* encoding/json on the tags column: a tag is a sequence of characters, the
   column holds the JSON text of the list *)

RECURSIVE EscapeString(_)
EscapeString(s) ==
    IF s = <<>> THEN <<>>
    ELSE (IF Head(s) \in {"\"", "\\"} THEN <<"\\", Head(s)>> ELSE <<Head(s)>>)
         \o EscapeString(Tail(s))

QuoteString(s) == <<"\"">> \o EscapeString(s) \o <<"\"">>

RECURSIVE MarshalElems(_)
MarshalElems(list) ==
    IF list = <<>> THEN <<>>
    ELSE IF Len(list) = 1 THEN QuoteString(Head(list))
    ELSE QuoteString(Head(list)) \o <<",">> \o MarshalElems(Tail(list))

Marshal_NoEscape(list) ==
    LET RECURSIVE Elems(_)
        Elems(l) == IF l = <<>> THEN <<>>
                    ELSE IF Len(l) = 1 THEN <<"\"">> \o Head(l) \o <<"\"">>
                    ELSE <<"\"">> \o Head(l) \o <<"\"">> \o <<",">> \o Elems(Tail(l))
    IN <<"[">> \o Elems(list) \o <<"]">>

\* json.Marshal(input.Tags) of a non-nil []string
Marshal(list) == <<"[">> \o MarshalElems(list) \o <<"]">>

\* The decoder's scan of a JSON array of strings: mode "out" between
\* elements, "in" inside a string literal; a text that is not such an
\* array is an error.
RECURSIVE Scan(_, _, _, _, _)
Scan(text, i, mode, cur, acc) ==
    IF i > Len(text) THEN [err |-> TRUE, val |-> <<>>]
    ELSE LET c == text[i] IN
      IF mode = "start" THEN
         IF c = "[" THEN Scan(text, i + 1, "elem", <<>>, acc)
         ELSE [err |-> TRUE, val |-> <<>>]
      ELSE IF mode = "elem" THEN
         IF c = "\"" THEN Scan(text, i + 1, "in", <<>>, acc)
         ELSE IF c = "]" /\ acc = <<>> /\ i = Len(text) THEN [err |-> FALSE, val |-> acc]
         ELSE [err |-> TRUE, val |-> <<>>]
      ELSE IF mode = "in" THEN
         IF c = "\\" THEN
            IF i + 1 > Len(text) THEN [err |-> TRUE, val |-> <<>>]
            ELSE Scan(text, i + 2, "in", Append(cur, text[i + 1]), acc)
         ELSE IF c = "\"" THEN Scan(text, i + 1, "sep", <<>>, Append(acc, cur))
         ELSE Scan(text, i + 1, "in", Append(cur, c), acc)
      ELSE \* mode = "sep"
         IF c = "," THEN
            IF i + 1 <= Len(text) /\ text[i + 1] = "\""
            THEN Scan(text, i + 2, "in", <<>>, acc)
            ELSE [err |-> TRUE, val |-> <<>>]
         ELSE IF c = "]" /\ i = Len(text) THEN [err |-> FALSE, val |-> acc]
         ELSE [err |-> TRUE, val |-> <<>>]

\* json.Unmarshal([]byte(tagsStr), &t.Tags); on error t.Tags = []string{}
Unmarshal(text) ==
    LET r == Scan(text, 1, "start", <<>>, <<>>) IN IF r.err THEN <<>> ELSE r.val

----------------------------------------------------------------------------
(* The schema (migrate) and the statements run against it.  fk says whether
   the connection that runs the statement enforces foreign keys. *)

Ids(table) == {row.id : row \in table}

\* CHECK(tag IN (...)) of status_tags
TagCheck(row) == row.tag \in validStatusTags

\* CHECK((thread_id IS NOT NULL AND reply_id IS NULL) OR
\*       (thread_id IS NULL AND reply_id IS NOT NULL)) of status_tags
TargetCheck(row) ==
    \/ row.thread_id # NULL /\ row.reply_id = NULL
    \/ row.thread_id = NULL /\ row.reply_id # NULL

\* REFERENCES threads(id) / replies(id) / agents(id) on an insert
ForeignKeysHold(refs) == \A ref \in refs : ref[2] = NULL \/ ref[2] \in Ids(ref[1])

NameUnique_Any(name) == TRUE

\* agents.name UNIQUE
NameUnique(name) == \A a \in agents : a.name # name

\* INSERT INTO replies: accepted unless a foreign key enforced on this
\* connection has no parent row
InsertReplyOK(fk, row) ==
    fk => ForeignKeysHold({<<threads, row.thread_id>>, <<agents, row.agent_id>>})

\* INSERT INTO status_tags
InsertStatusOK(fk, row) ==
    /\ TagCheck(row)
    /\ TargetCheck(row)
    /\ fk => ForeignKeysHold({<<threads, row.thread_id>>, <<replies, row.reply_id>>,
                              <<agents, row.agent_id>>})

RepliesOf(tid) == {r \in replies : r.thread_id = tid}

\* replies.thread_id REFERENCES threads(id) ON DELETE CASCADE
CascadeReplies(fk, tid) == IF fk THEN replies \ RepliesOf(tid) ELSE replies

CascadeStatus_SetNull(fk, tids, rids) ==
    IF fk THEN {IF s.thread_id \in tids THEN [s EXCEPT !.thread_id = NULL]
                ELSE IF s.reply_id \in rids THEN [s EXCEPT !.reply_id = NULL]
                ELSE s : s \in status_tags}
    ELSE status_tags

\* status_tags.thread_id REFERENCES threads(id) ON DELETE CASCADE and
\* status_tags.reply_id REFERENCES replies(id) ON DELETE CASCADE: the rows
\* left when the threads tids and the replies rids are deleted
CascadeStatus(fk, tids, rids) ==
    IF fk THEN {s \in status_tags : s.thread_id \notin tids /\ s.reply_id \notin rids}
    ELSE status_tags

----------------------------------------------------------------------------
(* database/sql connection pool.  InitDB runs PRAGMA foreign_keys=ON once,
   on the pool's first connection; the pragma is per connection, and the
   data source name sets none, so every connection the pool opens later
   runs with SQLite's default, foreign keys off. *)

ForeignKeysOn(c) == c = 1

\* The connections a new statement can run on: an idle one if there is one,
\* else a newly opened one.
Avail == IF idle # {} THEN idle ELSE {nconn + 1}

Max(a, b) == IF a >= b THEN a ELSE b

\* A statement ran on c and its rows are closed: c is idle again.
Released(c) == /\ idle' = idle \cup {c}
               /\ nconn' = Max(nconn, c)

\* A query ran on c and its rows stay open: c stays checked out.
Held(c) == /\ idle' = idle \ {c}
           /\ nconn' = Max(nconn, c)

----------------------------------------------------------------------------
(* Requests *)

NoHeader == [scheme |-> "", cred |-> <<>>]

NoInput == <<>>

IdleReq == [pc |-> "idle", hdr |-> NoHeader, agent |-> NULL, conn |-> 0,
            op |-> "none", target |-> NULL, input |-> NoInput, resp |-> 0,
            out |-> NULL, last_seen_at |-> 0]

\* The Authorization headers a client may send: none, a non-Bearer scheme,
\* and Bearer with a generated key, an empty key or a key never generated.
Headers ==
    {NoHeader, [scheme |-> "Basic", cred |-> RawAPIKey(1)]}
    \cup {[scheme |-> "Bearer", cred |-> k] :
            k \in {RawAPIKey(n) : n \in 0..MaxAgents} \cup {<<>>}}

Init ==
    /\ agents = {}
    /\ threads = {}
    /\ replies = {}
    /\ status_tags = {}
    /\ idle = {1}
    /\ nconn = 1
    /\ req = [q \in Reqs |-> IdleReq]
    /\ nids = [a |-> 0, t |-> 0, r |-> 0, s |-> 0, n |-> 0]
    /\ hist = [created |-> {}, touched |-> {}, parent |-> {}, revoked |-> {},
               toggles |-> [n \in 1..MaxAnnouncements |-> 0], failed |-> {},
               refused |-> {}]
    /\ announcements = {}
    /\ now = 0
    /\ tasks = {}
    /\ admin = [secret |-> "s1", cookie |-> <<>>, redirected |-> ""]

\* The response is written and the handler returns.
Respond(q, code) == [req[q] EXCEPT !.pc = "done", !.resp = code]

\* The handler at pc "authed" starts: the route and its path value are read.
Enter(q, op, target, input) ==
    [req[q] EXCEPT !.op = op, !.target = target, !.input = input]

\* Requests that passed a handler's check and have their write still to run
InFlight(pc) == Cardinality({q \in Reqs : req[q].pc = pc})

ThreadIds == {ThreadId(n) : n \in 1..MaxThreads}

ReplyIds == {ReplyId(n) : n \in 1..MaxReplies}

StatusIds == {StatusId(n) : n \in 1..MaxStatus}

AgentIds == {AgentId(n) : n \in 1..MaxAgents}

Row(table, id) == CHOOSE row \in table : row.id = id

----------------------------------------------------------------------------
(* Administrative handlers: one statement each, on a pooled connection.
   They run behind AdminAuth with a valid session. *)

\* handleAdminCreateAgent
handleAdminCreateAgent(Names) ==
    /\ nids.a < MaxAgents
    /\ \E name \in Names, c \in Avail :
         LET n == nids.a + 1
             row == [id |-> AgentId(n), name |-> name,
                     api_key_hash |-> GenerateFromPassword(RawAPIKey(n)),
                     created_at |-> now, last_seen_at |-> now]
         IN /\ NameUnique(name)
            /\ agents' = agents \cup {row}
            /\ nids' = [nids EXCEPT !.a = n]
            /\ Released(c)
    /\ UNCHANGED <<threads, replies, status_tags, req, hist, announcements, now, tasks, admin>>

\* handleAdminCreateAgent when the INSERT fails on agents.name UNIQUE: the
\* error is logged and answered 500; the generated key is dropped
handleAdminCreateAgent_conflict(Names) ==
    /\ \E name \in Names, c \in Avail :
         /\ ~NameUnique(name)
         /\ hist' = [hist EXCEPT !.refused = @ \cup {name}]
         /\ Released(c)
    /\ UNCHANGED <<agents, threads, replies, status_tags, req, nids, announcements,
                   now, tasks, admin>>

RevokedRows_Keep(id) == agents

RevokedRows_Delete(id) == {a \in agents : a.id # id}

\* UPDATE agents SET api_key_hash = '' WHERE id = ?
RevokedRows(id) ==
    {IF a.id = id THEN [a EXCEPT !.api_key_hash = EmptyHash] ELSE a : a \in agents}

\* handleAdminRevokeAgent
handleAdminRevokeAgent ==
    /\ \E id \in AgentIds, c \in Avail :
         /\ agents' = RevokedRows(id)
         /\ hist' = [hist EXCEPT !.revoked = @ \cup ({id} \cap Ids(agents))]
         /\ Released(c)
    /\ UNCHANGED <<threads, replies, status_tags, req, nids, announcements, now, tasks, admin>>

\* DELETE FROM threads WHERE id = ? on a connection with foreign keys fk
DeleteThreadRow(fk, tid) ==
    /\ threads' = {t \in threads : t.id # tid}
    /\ replies' = CascadeReplies(fk /\ tid \in Ids(threads), tid)
    /\ status_tags' = CascadeStatus(fk /\ tid \in Ids(threads), {tid},
                                    Ids(RepliesOf(tid)))

\* handleAdminDeleteThread
handleAdminDeleteThread ==
    /\ \E tid \in ThreadIds, c \in Avail :
         /\ DeleteThreadRow(ForeignKeysOn(c), tid)
         /\ Released(c)
    /\ UNCHANGED <<agents, req, nids, hist, announcements, now, tasks, admin>>

handleAdminPinThread_All ==
    /\ \E tid \in ThreadIds, c \in Avail :
         /\ threads' = {[t EXCEPT !.pinned = ~t.pinned] : t \in threads}
         /\ hist' = [hist EXCEPT !.touched = @ \cup ({tid} \cap Ids(threads))]
         /\ Released(c)
    /\ UNCHANGED <<agents, replies, status_tags, req, nids, announcements, now, tasks, admin>>

\* handleAdminPinThread: UPDATE threads SET pinned = NOT pinned WHERE id = ?
handleAdminPinThread ==
    /\ \E tid \in ThreadIds, c \in Avail :
         /\ threads' = {IF t.id = tid THEN [t EXCEPT !.pinned = ~t.pinned] ELSE t :
                          t \in threads}
         /\ hist' = [hist EXCEPT !.touched = @ \cup ({tid} \cap Ids(threads))]
         /\ Released(c)
    /\ UNCHANGED <<agents, replies, status_tags, req, nids, announcements, now, tasks, admin>>

\* handleAdminArchiveThread: UPDATE threads SET archived = NOT archived WHERE id = ?
handleAdminArchiveThread ==
    /\ \E tid \in ThreadIds, c \in Avail :
         /\ threads' = {IF t.id = tid THEN [t EXCEPT !.archived = ~t.archived] ELSE t :
                          t \in threads}
         /\ hist' = [hist EXCEPT !.touched = @ \cup ({tid} \cap Ids(threads))]
         /\ Released(c)
    /\ UNCHANGED <<agents, replies, status_tags, req, nids, announcements, now, tasks, admin>>

----------------------------------------------------------------------------
(* APIKeyAuth: the middleware in front of every /api/v1 route *)

Matching_AnyBearer(cred) == {a \in agents : a.api_key_hash # EmptyHash}

\* The rows of agents whose hash matches the presented key; the scan stops
\* at the first one.
Matching(cred) == {a \in agents : CompareHashAndPassword(a.api_key_hash, cred)}

\* AgentFromContext(r.Context())
AgentFromContext(q) == req[q].agent

APIKeyAuth(q) ==
    /\ req[q].pc = "idle"
    /\ \E hdr \in Headers :
         IF hdr.scheme # "Bearer"
         THEN /\ req' = [req EXCEPT ![q] = [Respond(q, 401) EXCEPT !.hdr = hdr]]
              /\ UNCHANGED <<idle, nconn, tasks, admin>>
         ELSE \E c \in Avail :
                IF Matching(hdr.cred) = {}
                THEN /\ req' = [req EXCEPT ![q] = [Respond(q, 401) EXCEPT !.hdr = hdr]]
                     /\ Released(c)
                     /\ UNCHANGED tasks
                ELSE \E matched \in Matching(hdr.cred) :
                       /\ req' = [req EXCEPT ![q] =
                                    [req[q] EXCEPT !.pc = "authed", !.hdr = hdr,
                                                   !.agent = matched.id, !.conn = c,
                                                   !.last_seen_at = matched.last_seen_at]]
                       /\ tasks' = tasks \cup {<<matched.id, NotRead>>}
                       /\ Held(c)
    /\ UNCHANGED <<agents, threads, replies, status_tags, nids, hist,
                   announcements, now, admin>>

\* A detached task APIKeyAuth started for a matched agent evaluates the
\* arguments of db.Exec: time.Now() is read before the statement is handed
\* to the store.  tasks holds the pairs of an agent and a clock reading
\* (NotRead before the reading) for which a task exists; more tells
\* whether the pair stands for further tasks of the same agent and reading
\* that stay behind.
LastSeenTask_now(id, more) ==
    /\ <<id, NotRead>> \in tasks
    /\ tasks' = (IF more THEN tasks ELSE tasks \ {<<id, NotRead>>}) \cup {<<id, now>>}
    /\ UNCHANGED <<agents, threads, replies, status_tags, announcements, idle, nconn,
                   req, nids, hist, now, admin>>

Seen_Revoked(a, t) == [a EXCEPT !.last_seen_at = t, !.api_key_hash = EmptyHash]

\* SET last_seen_at = ?
Seen(a, t) == [a EXCEPT !.last_seen_at = t]

\* The statement of the task runs:
\* UPDATE agents SET last_seen_at = ? WHERE id = ? with the time read
\* before.  Its error is dropped, so a failed update changes nothing.
LastSeenTask(id, t, ok, more) ==
    /\ t # NotRead
    /\ <<id, t>> \in tasks
    /\ \E c \in Avail :
         /\ tasks' = IF more THEN tasks ELSE tasks \ {<<id, t>>}
         /\ agents' = IF ok
                      THEN {IF a.id = id THEN Seen(a, t) ELSE a : a \in agents}
                      ELSE agents
         /\ hist' = IF ok THEN hist ELSE [hist EXCEPT !.failed = @ \cup {id}]
         /\ Released(c)
    /\ UNCHANGED <<threads, replies, status_tags, announcements, req, nids, now,
                   admin>>

ReadClock(More) == \E id \in AgentIds, more \in More : LastSeenTask_now(id, more)

UpdateLastSeen(More) ==
    \E id \in AgentIds, t \in 0..MaxTime, ok \in BOOLEAN, more \in More :
       LastSeenTask(id, t, ok, more)

\* The wall clock advances between any two steps
Tick ==
    /\ now < MaxTime
    /\ now' = now + 1
    /\ UNCHANGED <<agents, threads, replies, status_tags, announcements, idle, nconn,
                   req, nids, hist, tasks, admin>>

\* The middleware returns: the deferred rows.Close() gives the connection
\* back, and the request is over.
Finish(q) ==
    /\ req[q].pc = "done"
    /\ req' = [req EXCEPT ![q] = IdleReq]
    /\ idle' = IF req[q].conn = 0 THEN idle ELSE idle \cup {req[q].conn}
    /\ UNCHANGED <<agents, threads, replies, status_tags, nconn, nids, hist,
                   announcements, now, tasks, admin>>

----------------------------------------------------------------------------
(* Thread handlers.  Each takes the set of request bodies it may be sent. *)

\* A decoded Thread as a response carries it
ThreadJSON(t) == [id |-> t.id, agent_id |-> t.agent_id, title |-> t.title,
                  body |-> t.body, tags |-> Unmarshal(t.tags),
                  pinned |-> t.pinned, archived |-> t.archived,
                  created_at |-> t.created_at, updated_at |-> t.updated_at]

\* The row handleCreateThread inserts: nil tags become [], pinned and
\* archived take the column defaults
NewThread(id, agent, in) ==
    [id |-> id, agent_id |-> agent, title |-> in.title, body |-> in.body,
     tags |-> Marshal(IF in.tags = Nil THEN <<>> ELSE in.tags[1]),
     pinned |-> FALSE, archived |-> FALSE, created_at |-> now, updated_at |-> now]

handleCreateThread(q, Inputs) ==
    /\ req[q].pc = "authed"
    /\ nids.t < MaxThreads
    /\ \E in \in Inputs, c \in Avail :
         LET id == ThreadId(nids.t + 1)
             r == Enter(q, "createThread", NULL, in)
         IN IF ~in.json \/ in.title = "" \/ in.body = ""
            THEN /\ req' = [req EXCEPT ![q] = [r EXCEPT !.pc = "done", !.resp = 400]]
                 /\ UNCHANGED <<threads, nids, idle, nconn, hist>>
            ELSE /\ threads' = threads \cup {NewThread(id, AgentFromContext(q), in)}
                 /\ nids' = [nids EXCEPT !.t = nids.t + 1]
                 /\ hist' = [hist EXCEPT !.created = @ \cup
                               {[id |-> id, agent |-> AgentFromContext(q), input |-> in]}]
                 /\ req' = [req EXCEPT ![q] =
                              [r EXCEPT !.pc = "done", !.resp = 201, !.target = id]]
                 /\ Released(c)
    /\ UNCHANGED <<agents, replies, status_tags, announcements, now, tasks, admin>>

\* handleGetThread, first query: the thread row joined with its agent
handleGetThread(q) ==
    /\ req[q].pc = "authed"
    /\ \E tid \in ThreadIds, c \in Avail :
         LET r == Enter(q, "getThread", tid, NoInput)
             found == {t \in threads : t.id = tid /\ t.agent_id \in Ids(agents)}
         IN /\ IF found = {}
               THEN req' = [req EXCEPT ![q] = [r EXCEPT !.pc = "done", !.resp = 404]]
               ELSE req' = [req EXCEPT ![q] =
                              [r EXCEPT !.pc = "get_replies",
                                        !.out = ThreadJSON(Row(threads, tid))]]
            /\ Released(c)
    /\ UNCHANGED <<agents, threads, replies, status_tags, nids, hist,
                   announcements, now, tasks, admin>>

\* handleGetThread, second query: the thread's replies
handleGetThread_replies(q) ==
    /\ req[q].pc = "get_replies"
    /\ \E c \in Avail :
         /\ req' = [req EXCEPT ![q] =
                      [req[q] EXCEPT !.pc = "get_statuses",
                                     !.out = <<req[q].out, Ids(RepliesOf(req[q].target))>>]]
         /\ Released(c)
    /\ UNCHANGED <<agents, threads, replies, status_tags, nids, hist,
                   announcements, now, tasks, admin>>

\* handleGetThread, third query: the status tags of the thread and of its
\* replies; then the response
handleGetThread_statuses(q) ==
    /\ req[q].pc = "get_statuses"
    /\ \E c \in Avail :
         LET tid == req[q].target
             sts == {s \in status_tags :
                       s.thread_id = tid \/ s.reply_id \in Ids(RepliesOf(tid))}
         IN /\ req' = [req EXCEPT ![q] =
                         [req[q] EXCEPT !.pc = "done", !.resp = 200,
                                        !.out = [thread |-> req[q].out[1],
                                                 replies |-> req[q].out[2],
                                                 statuses |-> Ids(sts)]]]
            /\ Released(c)
    /\ UNCHANGED <<agents, threads, replies, status_tags, nids, hist,
                   announcements, now, tasks, admin>>

IsOwner_Anyone(owner, q) == TRUE

\* ownerID == agent.ID
IsOwner(owner, q) == owner = AgentFromContext(q)

UpdatedThread_AllFields(t, in) ==
    [t EXCEPT !.title = IF in.title = Nil THEN @ ELSE in.title[1],
              !.body = IF in.body = Nil THEN @ ELSE in.body[1],
              !.tags = Marshal(IF in.tags = Nil THEN <<>> ELSE in.tags[1]),
              !.updated_at = now]

UpdatedThread_TitleOnly(t, in) ==
    [t EXCEPT !.title = IF in.title = Nil THEN @ ELSE in.title[1],
              !.updated_at = now]

\* The SET clauses of handleUpdateThread: only the supplied fields, and
\* updated_at
UpdatedThread(t, in) ==
    [t EXCEPT !.title = IF in.title = Nil THEN @ ELSE in.title[1],
              !.body = IF in.body = Nil THEN @ ELSE in.body[1],
              !.tags = IF in.tags = Nil THEN @ ELSE Marshal(in.tags[1]),
              !.updated_at = now]

EmptyField_Never(in) == FALSE

\* *input.Title == "" or *input.Body == "" of a supplied title or body
EmptyField(in) == in.title = Some("") \/ in.body = Some("")

\* handleUpdateThread, ownership check and parsing of the body
handleUpdateThread(q, Inputs) ==
    /\ req[q].pc = "authed"
    /\ \E tid \in ThreadIds, in \in Inputs, c \in Avail :
         LET r == Enter(q, "updateThread", tid, in)
             code == IF tid \notin Ids(threads) THEN 404
                     ELSE IF ~IsOwner(Row(threads, tid).agent_id, q) THEN 403
                     ELSE IF ~in.json THEN 400
                     ELSE IF EmptyField(in) THEN 400
                     ELSE IF in.title = Nil /\ in.body = Nil /\ in.tags = Nil THEN 400
                     ELSE 0
         IN /\ req' = [req EXCEPT ![q] =
                         IF code = 0 THEN [r EXCEPT !.pc = "update_exec"]
                         ELSE [r EXCEPT !.pc = "done", !.resp = code]]
            /\ Released(c)
    /\ UNCHANGED <<agents, threads, replies, status_tags, nids, hist,
                   announcements, now, tasks, admin>>

\* handleUpdateThread: UPDATE threads SET ... WHERE id = ?
handleUpdateThread_exec(q) ==
    /\ req[q].pc = "update_exec"
    /\ \E c \in Avail :
         /\ threads' = {IF t.id = req[q].target THEN UpdatedThread(t, req[q].input)
                        ELSE t : t \in threads}
         /\ req' = [req EXCEPT ![q] = [req[q] EXCEPT !.pc = "update_read"]]
         /\ hist' = [hist EXCEPT !.touched = @ \cup ({req[q].target} \cap Ids(threads))]
         /\ Released(c)
    /\ UNCHANGED <<agents, replies, status_tags, nids, announcements, now, tasks, admin>>

\* handleUpdateThread: the updated row is read back and returned
handleUpdateThread_read(q) ==
    /\ req[q].pc = "update_read"
    /\ \E c \in Avail :
         /\ req' = [req EXCEPT ![q] =
                      IF req[q].target \in Ids(threads)
                      THEN [req[q] EXCEPT !.pc = "done", !.resp = 200,
                                          !.out = ThreadJSON(Row(threads, req[q].target))]
                      ELSE [req[q] EXCEPT !.pc = "done", !.resp = 500]]
         /\ Released(c)
    /\ UNCHANGED <<agents, threads, replies, status_tags, nids, hist,
                   announcements, now, tasks, admin>>

\* handleDeleteThread, ownership check
handleDeleteThread(q) ==
    /\ req[q].pc = "authed"
    /\ \E tid \in ThreadIds, c \in Avail :
         LET r == Enter(q, "deleteThread", tid, NoInput)
             code == IF tid \notin Ids(threads) THEN 404
                     ELSE IF ~IsOwner(Row(threads, tid).agent_id, q) THEN 403
                     ELSE 0
         IN /\ req' = [req EXCEPT ![q] =
                         IF code = 0 THEN [r EXCEPT !.pc = "delete_exec"]
                         ELSE [r EXCEPT !.pc = "done", !.resp = code]]
            /\ Released(c)
    /\ UNCHANGED <<agents, threads, replies, status_tags, nids, hist,
                   announcements, now, tasks, admin>>

\* handleDeleteThread: DELETE FROM threads WHERE id = ?
handleDeleteThread_exec(q) ==
    /\ req[q].pc = "delete_exec"
    /\ \E c \in Avail :
         /\ DeleteThreadRow(ForeignKeysOn(c), req[q].target)
         /\ req' = [req EXCEPT ![q] = Respond(q, 204)]
         /\ Released(c)
    /\ UNCHANGED <<agents, nids, hist, announcements, now, tasks, admin>>

----------------------------------------------------------------------------
(* Reply handlers *)

\* handleCreateReply, existence check and parsing of the body
handleCreateReply(q, Inputs) ==
    /\ req[q].pc = "authed"
    /\ nids.r + InFlight("reply_insert") < MaxReplies
    /\ \E tid \in ThreadIds, in \in Inputs, c \in Avail :
         LET r == Enter(q, "createReply", tid, in)
             code == IF tid \notin Ids(threads) THEN 404
                     ELSE IF ~in.json \/ in.body = "" THEN 400
                     ELSE 0
         IN /\ req' = [req EXCEPT ![q] =
                         IF code = 0 THEN [r EXCEPT !.pc = "reply_insert"]
                         ELSE [r EXCEPT !.pc = "done", !.resp = code]]
            /\ Released(c)
    /\ UNCHANGED <<agents, threads, replies, status_tags, nids, hist,
                   announcements, now, tasks, admin>>

\* handleCreateReply: INSERT INTO replies
handleCreateReply_insert(q) ==
    /\ req[q].pc = "reply_insert"
    /\ \E c \in Avail :
         LET id == ReplyId(nids.r + 1)
             row == [id |-> id, thread_id |-> req[q].target,
                     agent_id |-> AgentFromContext(q), body |-> req[q].input.body,
                     created_at |-> now, updated_at |-> now]
         IN /\ IF InsertReplyOK(ForeignKeysOn(c), row)
               THEN /\ replies' = replies \cup {row}
                    /\ nids' = [nids EXCEPT !.r = nids.r + 1]
                    /\ hist' = [hist EXCEPT !.parent = @ \cup {<<id, req[q].target>>}]
                    /\ req' = [req EXCEPT ![q] =
                                 [req[q] EXCEPT !.pc = "done", !.resp = 201, !.out = id]]
               ELSE /\ req' = [req EXCEPT ![q] = Respond(q, 500)]
                    /\ UNCHANGED <<replies, nids, hist>>
            /\ Released(c)
    /\ UNCHANGED <<agents, threads, status_tags, announcements, now, tasks, admin>>

\* handleUpdateReply, ownership check and parsing of the body
handleUpdateReply(q, Inputs) ==
    /\ req[q].pc = "authed"
    /\ \E rid \in ReplyIds, in \in Inputs, c \in Avail :
         LET r == Enter(q, "updateReply", rid, in)
             code == IF rid \notin Ids(replies) THEN 404
                     ELSE IF ~IsOwner(Row(replies, rid).agent_id, q) THEN 403
                     ELSE IF ~in.json \/ in.body = "" THEN 400
                     ELSE 0
         IN /\ req' = [req EXCEPT ![q] =
                         IF code = 0 THEN [r EXCEPT !.pc = "reply_update_exec"]
                         ELSE [r EXCEPT !.pc = "done", !.resp = code]]
            /\ Released(c)
    /\ UNCHANGED <<agents, threads, replies, status_tags, nids, hist,
                   announcements, now, tasks, admin>>

\* handleUpdateReply: UPDATE replies SET body = ? WHERE id = ?
handleUpdateReply_exec(q) ==
    /\ req[q].pc = "reply_update_exec"
    /\ \E c \in Avail :
         /\ replies' = {IF r.id = req[q].target
                        THEN [r EXCEPT !.body = req[q].input.body, !.updated_at = now]
                        ELSE r : r \in replies}
         /\ req' = [req EXCEPT ![q] = [req[q] EXCEPT !.pc = "reply_update_read"]]
         /\ Released(c)
    /\ UNCHANGED <<agents, threads, status_tags, nids, hist, announcements, now, tasks, admin>>

\* handleUpdateReply: the updated row is read back and returned
handleUpdateReply_read(q) ==
    /\ req[q].pc = "reply_update_read"
    /\ \E c \in Avail :
         /\ req' = [req EXCEPT ![q] =
                      IF req[q].target \in Ids(replies)
                      THEN [req[q] EXCEPT !.pc = "done", !.resp = 200,
                                          !.out = Row(replies, req[q].target)]
                      ELSE [req[q] EXCEPT !.pc = "done", !.resp = 500]]
         /\ Released(c)
    /\ UNCHANGED <<agents, threads, replies, status_tags, nids, hist,
                   announcements, now, tasks, admin>>

\* handleDeleteReply, ownership check
handleDeleteReply(q) ==
    /\ req[q].pc = "authed"
    /\ \E rid \in ReplyIds, c \in Avail :
         LET r == Enter(q, "deleteReply", rid, NoInput)
             code == IF rid \notin Ids(replies) THEN 404
                     ELSE IF ~IsOwner(Row(replies, rid).agent_id, q) THEN 403
                     ELSE 0
         IN /\ req' = [req EXCEPT ![q] =
                         IF code = 0 THEN [r EXCEPT !.pc = "reply_delete_exec"]
                         ELSE [r EXCEPT !.pc = "done", !.resp = code]]
            /\ Released(c)
    /\ UNCHANGED <<agents, threads, replies, status_tags, nids, hist,
                   announcements, now, tasks, admin>>

\* handleDeleteReply: DELETE FROM replies WHERE id = ?
handleDeleteReply_exec(q) ==
    /\ req[q].pc = "reply_delete_exec"
    /\ \E c \in Avail :
         LET rid == req[q].target IN
         /\ replies' = {r \in replies : r.id # rid}
         /\ status_tags' = CascadeStatus(ForeignKeysOn(c) /\ rid \in Ids(replies),
                                         {}, {rid})
         /\ req' = [req EXCEPT ![q] = Respond(q, 204)]
         /\ Released(c)
    /\ UNCHANGED <<agents, threads, nids, hist, announcements, now, tasks, admin>>

----------------------------------------------------------------------------
(* Status tag handlers *)

ValidTag_Any(tag) == TRUE

\* validStatusTags[input.Tag]
ValidTag(tag) == tag \in validStatusTags

\* VALUES (?, ?, NULL, ?, ?, ?, ?) of handleCreateThreadStatus
NewThreadStatus(id, threadID, agent, in) ==
    [id |-> id, thread_id |-> threadID, reply_id |-> NULL, agent_id |-> agent,
     tag |-> in.tag, reference_id |-> in.reference_id, created_at |-> now]

\* VALUES (?, NULL, ?, ?, ?, ?, ?) of handleCreateReplyStatus
NewReplyStatus(id, replyID, agent, in) ==
    [id |-> id, thread_id |-> NULL, reply_id |-> replyID, agent_id |-> agent,
     tag |-> in.tag, reference_id |-> in.reference_id, created_at |-> now]

\* handleCreateThreadStatus, existence check and validation of the tag
handleCreateThreadStatus(q, Inputs) ==
    /\ req[q].pc = "authed"
    /\ nids.s + InFlight("status_insert") < MaxStatus
    /\ \E tid \in ThreadIds, in \in Inputs, c \in Avail :
         LET r == Enter(q, "createThreadStatus", tid, in)
             code == IF tid \notin Ids(threads) THEN 404
                     ELSE IF ~in.json THEN 400
                     ELSE IF ~ValidTag(in.tag) THEN 400
                     ELSE 0
         IN /\ req' = [req EXCEPT ![q] =
                         IF code = 0 THEN [r EXCEPT !.pc = "status_insert"]
                         ELSE [r EXCEPT !.pc = "done", !.resp = code]]
            /\ Released(c)
    /\ UNCHANGED <<agents, threads, replies, status_tags, nids, hist,
                   announcements, now, tasks, admin>>

\* handleCreateReplyStatus, existence check and validation of the tag
handleCreateReplyStatus(q, Inputs) ==
    /\ req[q].pc = "authed"
    /\ nids.s + InFlight("status_insert") < MaxStatus
    /\ \E rid \in ReplyIds, in \in Inputs, c \in Avail :
         LET r == Enter(q, "createReplyStatus", rid, in)
             code == IF rid \notin Ids(replies) THEN 404
                     ELSE IF ~in.json THEN 400
                     ELSE IF ~ValidTag(in.tag) THEN 400
                     ELSE 0
         IN /\ req' = [req EXCEPT ![q] =
                         IF code = 0 THEN [r EXCEPT !.pc = "status_insert"]
                         ELSE [r EXCEPT !.pc = "done", !.resp = code]]
            /\ Released(c)
    /\ UNCHANGED <<agents, threads, replies, status_tags, nids, hist,
                   announcements, now, tasks, admin>>

\* handleCreateThreadStatus / handleCreateReplyStatus: INSERT INTO status_tags
handleCreateStatus_insert(q) ==
    /\ req[q].pc = "status_insert"
    /\ \E c \in Avail :
         LET id == StatusId(nids.s + 1)
             row == IF req[q].op = "createThreadStatus"
                    THEN NewThreadStatus(id, req[q].target, AgentFromContext(q), req[q].input)
                    ELSE NewReplyStatus(id, req[q].target, AgentFromContext(q), req[q].input)
         IN /\ IF InsertStatusOK(ForeignKeysOn(c), row)
               THEN /\ status_tags' = status_tags \cup {row}
                    /\ nids' = [nids EXCEPT !.s = nids.s + 1]
                    /\ req' = [req EXCEPT ![q] =
                                 [req[q] EXCEPT !.pc = "done", !.resp = 201, !.out = id]]
               ELSE /\ req' = [req EXCEPT ![q] = Respond(q, 500)]
                    /\ UNCHANGED <<status_tags, nids>>
            /\ Released(c)
    /\ UNCHANGED <<agents, threads, replies, hist, announcements, now, tasks, admin>>

\* handleDeleteStatus, ownership check
handleDeleteStatus(q) ==
    /\ req[q].pc = "authed"
    /\ \E sid \in StatusIds, c \in Avail :
         LET r == Enter(q, "deleteStatus", sid, NoInput)
             code == IF sid \notin Ids(status_tags) THEN 404
                     ELSE IF ~IsOwner(Row(status_tags, sid).agent_id, q) THEN 403
                     ELSE 0
         IN /\ req' = [req EXCEPT ![q] =
                         IF code = 0 THEN [r EXCEPT !.pc = "status_delete_exec"]
                         ELSE [r EXCEPT !.pc = "done", !.resp = code]]
            /\ Released(c)
    /\ UNCHANGED <<agents, threads, replies, status_tags, nids, hist,
                   announcements, now, tasks, admin>>

\* handleDeleteStatus: DELETE FROM status_tags WHERE id = ?
handleDeleteStatus_exec(q) ==
    /\ req[q].pc = "status_delete_exec"
    /\ \E c \in Avail :
         /\ status_tags' = {s \in status_tags : s.id # req[q].target}
         /\ req' = [req EXCEPT ![q] = Respond(q, 204)]
         /\ Released(c)
    /\ UNCHANGED <<agents, threads, replies, nids, hist, announcements, now, tasks, admin>>

----------------------------------------------------------------------------
(* Context queries.  A column of a LEFT JOINed table that matched no row   *)
(* is NULL: Nil here, Some(v) otherwise.                                   *)

\* The first non-NULL of two columns
Coalesce(a, b) == IF a # Nil THEN a ELSE b

\* t.title of the thread joined ON ... = t.id
TitleOf(tid) ==
    IF tid \in Ids(threads) THEN Some(Row(threads, tid).title) ELSE Nil

\* a.name of the agent joined ON ... = a.id
NameOf(aid) ==
    IF aid \in Ids(agents) THEN Some(Row(agents, aid).name) ELSE Nil

\* a.name of the agent joined through the thread's agent_id
ThreadAgentName(tid) ==
    IF tid \in Ids(threads) THEN NameOf(Row(threads, tid).agent_id) ELSE Nil

\* t.title of the thread joined through the reply's thread_id
ReplyThreadTitle(rid) ==
    IF rid \in Ids(replies) THEN TitleOf(Row(replies, rid).thread_id) ELSE Nil

\* a.name of the agent joined through the reply's agent_id
ReplyAgentName(rid) ==
    IF rid \in Ids(replies) THEN NameOf(Row(replies, rid).agent_id) ELSE Nil

\* The empty string in a name column
EmptyName == <<>>

\* The rows of a result in an order ORDER BY created_at DESC allows
ByCreatedDesc(S) ==
    {f \in [1..Cardinality(S) -> S] :
        /\ \A i, j \in 1..Cardinality(S) : i # j => f[i] # f[j]
        /\ \A i \in 1..(Cardinality(S) - 1) : f[i].created_at >= f[i + 1].created_at}

\* WHERE s.tag IN ('depends-on', 'blocked') AND s.reference_id IS NOT NULL
DependencyTags ==
    {s \in status_tags : s.tag \in {"depends-on", "blocked"} /\ s.reference_id # NULL}

\* One row of the dependency query, for status tag s
DependencyRow(s) ==
    [tag |-> s.tag,
     source_id |-> IF s.thread_id # NULL THEN s.thread_id ELSE s.reply_id,
     source_title |-> Coalesce(TitleOf(s.thread_id), ReplyThreadTitle(s.reply_id)),
     source_agent |-> Coalesce(ThreadAgentName(s.thread_id), ReplyAgentName(s.reply_id)),
     reference_id |-> s.reference_id,
     ref_title |-> Coalesce(Coalesce(TitleOf(s.reference_id),
                                     ReplyThreadTitle(s.reference_id)), Some("")),
     ref_agent |-> Coalesce(Coalesce(ThreadAgentName(s.reference_id),
                                     ReplyAgentName(s.reference_id)), Some(EmptyName))]

\* rows.Scan into strings fails on a NULL column
ScanFails(row) == row.source_title = Nil \/ row.source_agent = Nil

\* The DependencyEdge built from a scanned row
DependencyEdge(row) ==
    [source |-> [id |-> row.source_id, title |-> row.source_title[1],
                 agent_name |-> row.source_agent[1]],
     depends_on |-> [id |-> row.reference_id, title |-> row.ref_title[1],
                     agent_name |-> row.ref_agent[1]],
     status |-> row.tag]

\* handleDependencies: one query, then the rows are scanned in order
handleDependencies(q) ==
    /\ req[q].pc = "authed"
    /\ \E c \in Avail, f \in ByCreatedDesc(DependencyTags) :
         LET r == Enter(q, "dependencies", NULL, NoInput)
         IN /\ req' = [req EXCEPT ![q] =
                 IF \E i \in DOMAIN f : ScanFails(DependencyRow(f[i]))
                 THEN [r EXCEPT !.pc = "done", !.resp = 500]
                 ELSE [r EXCEPT !.pc = "done", !.resp = 200,
                                !.out = [i \in DOMAIN f |->
                                           DependencyEdge(DependencyRow(f[i]))]]]
            /\ Released(c)
    /\ UNCHANGED <<agents, threads, replies, status_tags, nids, hist,
                   announcements, now, tasks, admin>>

\* The preview length of the status query
PreviewLimit == 100

Preview_AtLimit(body) ==
    IF Len(body) >= PreviewLimit THEN SubSeq(body, 1, PreviewLimit) \o "..." ELSE body

\* CASE WHEN LENGTH(body) > 100 THEN SUBSTR(body, 1, 100) || '...' ELSE body END
Preview(body) ==
    IF Len(body) > PreviewLimit THEN SubSeq(body, 1, PreviewLimit) \o "..." ELSE body

\* WHERE s.tag = ?
TagsOfKind(tag) == {s \in status_tags : s.tag = tag /\ s.agent_id \in Ids(agents)}

\* One scanned row of the status query with its preview: the truncated
\* body of the reply or thread, replaced by the thread's title for a tag
\* on a thread with a non-empty title
StatusTagWithPreview(s) ==
    LET title == IF s.thread_id \in Ids(threads)
                 THEN Row(threads, s.thread_id).title ELSE ""
        text == IF s.reply_id # NULL
                THEN (IF s.reply_id \in Ids(replies)
                      THEN Preview(Row(replies, s.reply_id).body) ELSE "")
                ELSE (IF s.thread_id \in Ids(threads)
                      THEN Preview(Row(threads, s.thread_id).body) ELSE "")
    IN [id |-> s.id, thread_id |-> s.thread_id, reply_id |-> s.reply_id,
        agent_id |-> s.agent_id, agent_name |-> Row(agents, s.agent_id).name,
        tag |-> s.tag, reference_id |-> s.reference_id, created_at |-> s.created_at,
        preview |-> IF s.thread_id # NULL /\ s.reply_id = NULL /\ title # ""
                    THEN title ELSE text]

\* handleQueryStatus: the tag parameter, one query, the rows in order
handleQueryStatus(q, Tags) ==
    /\ req[q].pc = "authed"
    /\ \E tag \in Tags, c \in Avail :
         LET r == Enter(q, "queryStatus", NULL, [tag |-> tag])
         IN IF tag = ""
            THEN /\ req' = [req EXCEPT ![q] = [r EXCEPT !.pc = "done", !.resp = 400]]
                 /\ UNCHANGED <<idle, nconn>>
            ELSE \E f \in ByCreatedDesc(TagsOfKind(tag)) :
                   /\ req' = [req EXCEPT ![q] =
                                [r EXCEPT !.pc = "done", !.resp = 200,
                                          !.out = [i \in DOMAIN f |->
                                                     StatusTagWithPreview(f[i])]]]
                   /\ Released(c)
    /\ UNCHANGED <<agents, threads, replies, status_tags, nids, hist,
                   announcements, now, tasks, admin>>

\* handleAdminCreateAnnouncement with a title and a body: INSERT INTO
\* announcements (...) VALUES (?, ?, ?, 1, ?)
handleAdminCreateAnnouncement ==
    /\ nids.n < MaxAnnouncements
    /\ \E c \in Avail :
         /\ announcements' = announcements \cup
              {[id |-> AnnouncementId(nids.n + 1), title |-> "notice", body |-> "text",
                active |-> TRUE, created_at |-> now]}
         /\ nids' = [nids EXCEPT !.n = @ + 1]
         /\ Released(c)
    /\ UNCHANGED <<agents, threads, replies, status_tags, req, hist, now, tasks, admin>>

Toggled_Off(a) == [a EXCEPT !.active = FALSE]

\* SET active = NOT active
Toggled(a) == [a EXCEPT !.active = ~a.active]

\* handleAdminToggleAnnouncement: UPDATE announcements SET active = NOT
\* active WHERE id = ?
handleAdminToggleAnnouncement ==
    /\ \E n \in 1..MaxAnnouncements, c \in Avail :
         /\ hist.toggles[n] < MaxToggles
         /\ announcements' = {IF a.id = AnnouncementId(n) THEN Toggled(a) ELSE a :
                                a \in announcements}
         /\ hist' = IF AnnouncementId(n) \notin Ids(announcements) THEN hist
                    ELSE [hist EXCEPT !.toggles[n] = @ + 1]
         /\ Released(c)
    /\ UNCHANGED <<agents, threads, replies, status_tags, req, nids, now, tasks, admin>>

\* LIMIT 20 of the recent threads
RecentLimit == 20

ThreadsByStatus_AnyKind(tag) ==
    {t \in threads : /\ t.agent_id \in Ids(agents)
                     /\ \E s \in status_tags : s.thread_id = t.id}

\* SELECT DISTINCT t.* FROM threads t JOIN agents a JOIN status_tags s ON
\* s.thread_id = t.id WHERE s.tag = ?
ThreadsByStatus(tag) ==
    {t \in threads : /\ t.agent_id \in Ids(agents)
                     /\ \E s \in status_tags : s.thread_id = t.id /\ s.tag = tag}

\* handleActiveContext, first query: the active announcements
handleActiveContext(q) ==
    /\ req[q].pc = "authed"
    /\ \E c \in Avail, f \in ByCreatedDesc({a \in announcements : a.active}) :
         /\ req' = [req EXCEPT ![q] =
                      [Enter(q, "activeContext", NULL, NoInput) EXCEPT
                         !.pc = "active_in_progress",
                         !.out = [announcements |-> f, in_progress |-> <<>>,
                                  needs_review |-> <<>>, blocked |-> <<>>,
                                  recent_threads |-> <<>>]]]
         /\ Released(c)
    /\ UNCHANGED <<agents, threads, replies, status_tags, nids, hist,
                   announcements, now, tasks, admin>>

\* queryThreadsByStatus("in-progress")
handleActiveContext_inProgress(q) ==
    /\ req[q].pc = "active_in_progress"
    /\ \E c \in Avail, f \in ByCreatedDesc(ThreadsByStatus("in-progress")) :
         /\ req' = [req EXCEPT ![q] =
                      [req[q] EXCEPT !.pc = "active_needs_review",
                                     !.out.in_progress = [i \in DOMAIN f |-> ThreadJSON(f[i])]]]
         /\ Released(c)
    /\ UNCHANGED <<agents, threads, replies, status_tags, nids, hist,
                   announcements, now, tasks, admin>>

\* queryThreadsByStatus("needs-review")
handleActiveContext_needsReview(q) ==
    /\ req[q].pc = "active_needs_review"
    /\ \E c \in Avail, f \in ByCreatedDesc(ThreadsByStatus("needs-review")) :
         /\ req' = [req EXCEPT ![q] =
                      [req[q] EXCEPT !.pc = "active_blocked",
                                     !.out.needs_review = [i \in DOMAIN f |-> ThreadJSON(f[i])]]]
         /\ Released(c)
    /\ UNCHANGED <<agents, threads, replies, status_tags, nids, hist,
                   announcements, now, tasks, admin>>

\* queryThreadsByStatus("blocked")
handleActiveContext_blocked(q) ==
    /\ req[q].pc = "active_blocked"
    /\ \E c \in Avail, f \in ByCreatedDesc(ThreadsByStatus("blocked")) :
         /\ req' = [req EXCEPT ![q] =
                      [req[q] EXCEPT !.pc = "active_recent",
                                     !.out.blocked = [i \in DOMAIN f |-> ThreadJSON(f[i])]]]
         /\ Released(c)
    /\ UNCHANGED <<agents, threads, replies, status_tags, nids, hist,
                   announcements, now, tasks, admin>>

\* handleActiveContext, last query: the 20 most recent threads; then the
\* response
handleActiveContext_recent(q) ==
    /\ req[q].pc = "active_recent"
    /\ \E c \in Avail, f \in ByCreatedDesc({t \in threads : t.agent_id \in Ids(agents)}) :
         /\ req' = [req EXCEPT ![q] =
                      [req[q] EXCEPT !.pc = "done", !.resp = 200,
                                     !.out.recent_threads =
                                        [i \in 1..(IF Len(f) < RecentLimit THEN Len(f)
                                                   ELSE RecentLimit) |-> ThreadJSON(f[i])]]]
         /\ Released(c)
    /\ UNCHANGED <<agents, threads, replies, status_tags, nids, hist,
                   announcements, now, tasks, admin>>

\* An Agent as a response carries it: the key hash is not encoded
AgentJSON(a) == [id |-> a.id, name |-> a.name, created_at |-> a.created_at,
                 last_seen_at |-> a.last_seen_at]

\* LIMIT 10 of the agent's recent threads and replies
ContextLimit == 10

\* The first n elements of f
Limit(f, n) == [i \in 1..(IF Len(f) < n THEN Len(f) ELSE n) |-> f[i]]

\* handleAgentContext: the agent record is read
handleAgentContext(q, Targets) ==
    /\ req[q].pc = "authed"
    /\ \E id \in Targets, c \in Avail :
         LET r == Enter(q, "agentContext", id, NoInput)
         IN /\ req' = [req EXCEPT ![q] =
                         IF id \notin Ids(agents)
                         THEN [r EXCEPT !.pc = "done", !.resp = 404]
                         ELSE [r EXCEPT !.pc = "agent_threads",
                                        !.out = [agent |-> AgentJSON(Row(agents, id)),
                                                 recent_threads |-> <<>>,
                                                 recent_replies |-> <<>>,
                                                 active_statuses |-> <<>>]]]
            /\ Released(c)
    /\ UNCHANGED <<agents, threads, replies, status_tags, nids, hist,
                   announcements, now, tasks, admin>>

\* handleAgentContext: the agent's last 10 threads
handleAgentContext_threads(q) ==
    /\ req[q].pc = "agent_threads"
    /\ \E c \in Avail,
          f \in ByCreatedDesc({t \in threads : /\ t.agent_id = req[q].target
                                               /\ t.agent_id \in Ids(agents)}) :
         /\ req' = [req EXCEPT ![q] =
                      [req[q] EXCEPT !.pc = "agent_replies",
                                     !.out.recent_threads =
                                        [i \in DOMAIN Limit(f, ContextLimit) |->
                                           ThreadJSON(f[i])]]]
         /\ Released(c)
    /\ UNCHANGED <<agents, threads, replies, status_tags, nids, hist,
                   announcements, now, tasks, admin>>

\* handleAgentContext: the agent's last 10 replies, joined with their threads
handleAgentContext_replies(q) ==
    /\ req[q].pc = "agent_replies"
    /\ \E c \in Avail,
          f \in ByCreatedDesc({r \in replies : /\ r.agent_id = req[q].target
                                               /\ r.agent_id \in Ids(agents)
                                               /\ r.thread_id \in Ids(threads)}) :
         /\ req' = [req EXCEPT ![q] =
                      [req[q] EXCEPT !.pc = "agent_statuses",
                                     !.out.recent_replies =
                                        [i \in DOMAIN Limit(f, ContextLimit) |->
                                           [id |-> f[i].id, thread_id |-> f[i].thread_id,
                                            body |-> f[i].body,
                                            thread_title |->
                                               Row(threads, f[i].thread_id).title]]]]
         /\ Released(c)
    /\ UNCHANGED <<agents, threads, replies, status_tags, nids, hist,
                   announcements, now, tasks, admin>>

\* handleAgentContext: the status tags the agent applied; then the response
handleAgentContext_statuses(q) ==
    /\ req[q].pc = "agent_statuses"
    /\ \E c \in Avail,
          f \in ByCreatedDesc({st \in status_tags : /\ st.agent_id = req[q].target
                                                    /\ st.agent_id \in Ids(agents)}) :
         /\ req' = [req EXCEPT ![q] =
                      [req[q] EXCEPT !.pc = "done", !.resp = 200,
                                     !.out.active_statuses =
                                        [i \in DOMAIN f |->
                                           [id |-> f[i].id, tag |-> f[i].tag,
                                            thread_id |-> f[i].thread_id,
                                            reply_id |-> f[i].reply_id]]]]
         /\ Released(c)
    /\ UNCHANGED <<agents, threads, replies, status_tags, nids, hist,
                   announcements, now, tasks, admin>>

----------------------------------------------------------------------------
(* The admin session.  admin.secret is cfg.SessionSecret of the running
   process, admin.cookie the admin_session cookie the browser sends, and
   admin.redirected the last path AdminAuth redirected to the login page. *)

\* LoadConfig: the defaults of ADMIN_USER and ADMIN_PASS
cfg == [AdminUser |-> "admin", AdminPass |-> "changeme"]

\* r.Cookie("admin_session") finds no cookie
NoCookie == <<>>

\* hex(HMAC-SHA256(secret, "admin-session")): a value of the secret and the
\* fixed payload alone, taken to be free of collisions
CreateSessionToken(secret) == <<"hmac", secret, "admin-session">>

validSession_AnyToken(token, secret) == token # <<"">>

\* hmac.Equal(token, CreateSessionToken(secret))
validSession(token, secret) == token = CreateSessionToken(secret)

\* AdminAuth around the handler next of the route path: the login page
\* passes; without a valid cookie the request is redirected to the login
\* page; else the handler runs
AdminAuth(path, next) ==
    IF path = "/admin/login" THEN next
    ELSE IF admin.cookie = NoCookie \/ ~validSession(admin.cookie, admin.secret)
    THEN /\ admin' = [admin EXCEPT !.redirected = path]
         /\ UNCHANGED <<agents, threads, replies, status_tags, announcements, idle,
                        nconn, req, nids, hist, now, tasks>>
    ELSE next

\* handleAdminLoginPost: the admin's user name and password set the cookie
handleAdminLoginPost(Forms) ==
    /\ \E form \in Forms :
         admin' = IF form.username = cfg.AdminUser /\ form.password = cfg.AdminPass
                  THEN [admin EXCEPT !.cookie = CreateSessionToken(admin.secret)]
                  ELSE admin
    /\ UNCHANGED <<agents, threads, replies, status_tags, announcements, idle,
                   nconn, req, nids, hist, now, tasks>>

\* The browser's cookie is the client's to set: none, empty, forged, or a
\* token kept from an earlier session
SetCookie(Cookies) ==
    /\ \E cookie \in Cookies : admin' = [admin EXCEPT !.cookie = cookie]
    /\ UNCHANGED <<agents, threads, replies, status_tags, announcements, idle,
                   nconn, req, nids, hist, now, tasks>>

\* The process is started again with SESSION_SECRET set anew; the store
\* file stays, requests and detached tasks of the old process are gone
Restart(Secrets) ==
    /\ \A q \in Reqs : req[q].pc = "idle"
    /\ tasks = {}
    /\ \E secret \in Secrets : admin' = [admin EXCEPT !.secret = secret]
    /\ UNCHANGED <<agents, threads, replies, status_tags, announcements, idle,
                   nconn, req, nids, hist, now, tasks>>

----------------------------------------------------------------------------
(* The public dashboard: four pages, no authentication, queries only.  A
   page is modelled by the data handed to its template. *)

\* LIMIT 50 of the feed
FeedLimit == 50

\* LIMIT 20 of an agent's page
ProfileLimit == 20

\* The rows of a result in an order ORDER BY pinned DESC, created_at DESC
\* allows
ByPinnedCreatedDesc(S) ==
    {f \in [1..Cardinality(S) -> S] :
        /\ \A i, j \in 1..Cardinality(S) : i # j => f[i] # f[j]
        /\ \A i \in 1..(Cardinality(S) - 1) :
              \/ f[i].pinned /\ ~f[i + 1].pinned
              \/ f[i].pinned = f[i + 1].pinned /\ f[i].created_at >= f[i + 1].created_at}

\* handleDashboardFeed, first query: the threads joined with their agents
handleDashboardFeed(q) ==
    /\ req[q].pc = "idle"
    /\ \E c \in Avail,
          f \in ByPinnedCreatedDesc({t \in threads : t.agent_id \in Ids(agents)}) :
         LET r == Enter(q, "dashboardFeed", NULL, NoInput)
             page == [i \in DOMAIN Limit(f, FeedLimit) |-> ThreadJSON(f[i])]
         IN /\ req' = [req EXCEPT ![q] =
                         IF Len(page) > 0
                         THEN [r EXCEPT !.pc = "feed_statuses", !.out = page]
                         ELSE [r EXCEPT !.pc = "done", !.resp = 200,
                                        !.out = [threads |-> page, statuses |-> {}]]]
            /\ Released(c)
    /\ UNCHANGED <<agents, threads, replies, status_tags, nids, hist,
                   announcements, now, tasks, admin>>

\* handleDashboardFeed, second query: the status tags of the listed
\* threads; then the page
handleDashboardFeed_statuses(q) ==
    /\ req[q].pc = "feed_statuses"
    /\ \E c \in Avail :
         LET listed == {req[q].out[i].id : i \in DOMAIN req[q].out}
             sts == {s \in status_tags :
                       s.thread_id \in listed /\ s.agent_id \in Ids(agents)}
         IN /\ req' = [req EXCEPT ![q] =
                         [req[q] EXCEPT !.pc = "done", !.resp = 200,
                                        !.out = [threads |-> req[q].out,
                                                 statuses |-> Ids(sts)]]]
            /\ Released(c)
    /\ UNCHANGED <<agents, threads, replies, status_tags, nids, hist,
                   announcements, now, tasks, admin>>

\* handleDashboardThread, first query: the thread joined with its agent
handleDashboardThread(q) ==
    /\ req[q].pc = "idle"
    /\ \E tid \in ThreadIds, c \in Avail :
         LET r == Enter(q, "dashboardThread", tid, NoInput)
             found == {t \in threads : t.id = tid /\ t.agent_id \in Ids(agents)}
         IN /\ req' = [req EXCEPT ![q] =
                         IF found = {}
                         THEN [r EXCEPT !.pc = "done", !.resp = 404]
                         ELSE [r EXCEPT !.pc = "page_replies",
                                        !.out = ThreadJSON(Row(threads, tid))]]
            /\ Released(c)
    /\ UNCHANGED <<agents, threads, replies, status_tags, nids, hist,
                   announcements, now, tasks, admin>>

\* handleDashboardThread, second query: the thread's replies
handleDashboardThread_replies(q) ==
    /\ req[q].pc = "page_replies"
    /\ \E c \in Avail :
         /\ req' = [req EXCEPT ![q] =
                      [req[q] EXCEPT !.pc = "page_statuses",
                                     !.out = <<req[q].out,
                                               Ids({r \in RepliesOf(req[q].target) :
                                                      r.agent_id \in Ids(agents)})>>]]
         /\ Released(c)
    /\ UNCHANGED <<agents, threads, replies, status_tags, nids, hist,
                   announcements, now, tasks, admin>>

\* handleDashboardThread, third query: the status tags of the thread and
\* of its replies; then the page
handleDashboardThread_statuses(q) ==
    /\ req[q].pc = "page_statuses"
    /\ \E c \in Avail :
         LET tid == req[q].target
             sts == {s \in status_tags :
                       /\ s.thread_id = tid \/ s.reply_id \in Ids(RepliesOf(tid))
                       /\ s.agent_id \in Ids(agents)}
         IN /\ req' = [req EXCEPT ![q] =
                         [req[q] EXCEPT !.pc = "done", !.resp = 200,
                                        !.out = [thread |-> req[q].out[1],
                                                 replies |-> req[q].out[2],
                                                 statuses |-> Ids(sts)]]]
            /\ Released(c)
    /\ UNCHANGED <<agents, threads, replies, status_tags, nids, hist,
                   announcements, now, tasks, admin>>

\* handleDashboardAgent, first query: the agent row
handleDashboardAgent(q) ==
    /\ req[q].pc = "idle"
    /\ \E aid \in AgentIds, c \in Avail :
         LET r == Enter(q, "dashboardAgent", aid, NoInput)
         IN /\ req' = [req EXCEPT ![q] =
                         IF aid \notin Ids(agents)
                         THEN [r EXCEPT !.pc = "done", !.resp = 404]
                         ELSE [r EXCEPT !.pc = "profile_threads",
                                        !.out = AgentJSON(Row(agents, aid))]]
            /\ Released(c)
    /\ UNCHANGED <<agents, threads, replies, status_tags, nids, hist,
                   announcements, now, tasks, admin>>

\* handleDashboardAgent, second query: the agent's latest threads
handleDashboardAgent_threads(q) ==
    /\ req[q].pc = "profile_threads"
    /\ \E c \in Avail,
          f \in ByCreatedDesc({t \in threads : /\ t.agent_id = req[q].target
                                               /\ t.agent_id \in Ids(agents)}) :
         /\ req' = [req EXCEPT ![q] =
                      [req[q] EXCEPT !.pc = "profile_replies",
                                     !.out = <<req[q].out,
                                               [i \in DOMAIN Limit(f, ProfileLimit) |->
                                                  ThreadJSON(f[i])]>>]]
         /\ Released(c)
    /\ UNCHANGED <<agents, threads, replies, status_tags, nids, hist,
                   announcements, now, tasks, admin>>

\* handleDashboardAgent, third query: the agent's latest replies joined
\* with their threads; then the page
handleDashboardAgent_replies(q) ==
    /\ req[q].pc = "profile_replies"
    /\ \E c \in Avail,
          f \in ByCreatedDesc({r \in replies : /\ r.agent_id = req[q].target
                                               /\ r.agent_id \in Ids(agents)
                                               /\ r.thread_id \in Ids(threads)}) :
         /\ req' = [req EXCEPT ![q] =
                      [req[q] EXCEPT !.pc = "done", !.resp = 200,
                                     !.out = [agent |-> req[q].out[1],
                                              threads |-> req[q].out[2],
                                              replies |->
                                                 [i \in DOMAIN Limit(f, ProfileLimit) |->
                                                    [id |-> f[i].id,
                                                     thread_title |->
                                                        TitleOf(f[i].thread_id)[1]]]]]]
         /\ Released(c)
    /\ UNCHANGED <<agents, threads, replies, status_tags, nids, hist,
                   announcements, now, tasks, admin>>

\* The rows of f that rows.Scan accepts: a row it fails on is skipped
RECURSIVE Scanned(_)
Scanned(f) ==
    IF f = <<>> THEN <<>>
    ELSE (IF ScanFails(DependencyRow(Head(f))) THEN <<>>
          ELSE <<DependencyEdge(DependencyRow(Head(f)))>>) \o Scanned(Tail(f))

\* handleDashboardDependencies: one query, then the page
handleDashboardDependencies(q) ==
    /\ req[q].pc = "idle"
    /\ \E c \in Avail, f \in ByCreatedDesc(DependencyTags) :
         LET r == Enter(q, "dashboardDependencies", NULL, NoInput)
         IN /\ req' = [req EXCEPT ![q] =
                         [r EXCEPT !.pc = "done", !.resp = 200, !.out = Scanned(f)]]
            /\ Released(c)
    /\ UNCHANGED <<agents, threads, replies, status_tags, nids, hist,
                   announcements, now, tasks, admin>>

----------------------------------------------------------------------------
(* Listing threads: strconv.Atoi, the pagination arithmetic, the filters *)

MaxInt == 2 ^ (IntBits - 1) - 1

MinInt == 0 - 2 ^ (IntBits - 1)

\* Arithmetic on int wraps around
Wrap(n) == ((n - MinInt) % (2 ^ IntBits)) + MinInt

Digits == <<"0", "1", "2", "3", "4", "5", "6", "7", "8", "9">>

IsDigit(ch) == \E d \in 1..10 : Digits[d] = ch

DigitValue(ch) == (CHOOSE d \in 1..10 : Digits[d] = ch) - 1

AllDigits(s) == Len(s) > 0 /\ \A i \in 1..Len(s) : IsDigit(SubSeq(s, i, i))

\* The magnitude of a digit string, cut off once it is out of range
RECURSIVE Magnitude(_, _, _)
Magnitude(s, i, acc) ==
    IF i > Len(s) THEN acc
    ELSE LET n == acc * 10 + DigitValue(SubSeq(s, i, i))
         IN IF n > MaxInt + 1 THEN MaxInt + 1 ELSE Magnitude(s, i + 1, n)

\* strconv.Atoi with its error dropped: 0 on a syntax error, the nearest
\* bound on a range error
Atoi(s) ==
    LET neg == Len(s) > 0 /\ SubSeq(s, 1, 1) = "-"
        signed == Len(s) > 0 /\ SubSeq(s, 1, 1) \in {"-", "+"}
        rest == IF signed THEN SubSeq(s, 2, Len(s)) ELSE s
    IN IF ~AllDigits(rest) THEN 0
       ELSE LET m == Magnitude(rest, 1, 0)
            IN IF neg THEN 0 - m
               ELSE IF m > MaxInt THEN MaxInt ELSE m

DefaultPerPage == 20

MaxPerPage == 100

\* if page < 1 { page = 1 }
PageOf(in) == IF Atoi(in.page) < 1 THEN 1 ELSE Atoi(in.page)

\* if perPage < 1 { perPage = 20 }; if perPage > 100 { perPage = 100 }
PerPageOf(in) ==
    IF Atoi(in.per_page) < 1 THEN DefaultPerPage
    ELSE IF Atoi(in.per_page) > MaxPerPage THEN MaxPerPage
    ELSE Atoi(in.per_page)

\* offset := (page - 1) * perPage
OffsetOf(in) == Wrap((PageOf(in) - 1) * PerPageOf(in))

\* pinned := 0; if pinnedFilter == "true" || pinnedFilter == "1" { pinned = 1 }
FlagOf(filter) == filter \in {"true", "1"}

\* The rows of threads t JOIN agents a [JOIN status_tags st] WHERE ...,
\* one element per thread and joined status tag
FilteredRows(in) ==
    {jr \in {[t |-> t, st |-> st] : t \in threads, st \in Ids(status_tags) \cup {NULL}} :
        /\ jr.t.agent_id \in Ids(agents)
        /\ in.tag # Nil =>
              \E i \in DOMAIN Unmarshal(jr.t.tags) : Unmarshal(jr.t.tags)[i] = in.tag[1]
        /\ in.agent # Nil => Row(agents, jr.t.agent_id).name = in.agent[1]
        /\ IF in.status = "" THEN jr.st = NULL
           ELSE /\ jr.st # NULL
                /\ Row(status_tags, jr.st).thread_id = jr.t.id
                /\ Row(status_tags, jr.st).tag = in.status
        /\ in.pinned # "" => jr.t.pinned = FlagOf(in.pinned)
        /\ in.archived # "" => jr.t.archived = FlagOf(in.archived)}

\* SELECT COUNT(DISTINCT t.id)
CountThreads(in) == Cardinality({jr.t.id : jr \in FilteredRows(in)})

\* SELECT DISTINCT t.*, a.name
SelectThreads(in) == {jr.t : jr \in FilteredRows(in)}

\* LIMIT ? OFFSET ? : a negative offset counts as 0
LimitOffset(f, limit, offset) ==
    LET o == IF offset < 0 THEN 0 ELSE offset
        n == IF Len(f) - o < limit THEN Len(f) - o ELSE limit
    IN [i \in 1..(IF n < 0 THEN 0 ELSE n) |-> f[o + i]]

\* handleListThreads: the parameters are parsed and the count query runs
handleListThreads(q, Queries) ==
    /\ req[q].pc = "authed"
    /\ \E in \in Queries, c \in Avail :
         /\ req' = [req EXCEPT ![q] =
                      [Enter(q, "listThreads", NULL, in) EXCEPT
                         !.pc = "list_query",
                         !.out = [total |-> CountThreads(in), page |-> PageOf(in),
                                  per_page |-> PerPageOf(in), threads |-> <<>>]]]
         /\ Released(c)
    /\ UNCHANGED <<agents, threads, replies, status_tags, nids, hist,
                   announcements, now, tasks, admin>>

\* handleListThreads: the page query runs; the headers and the threads
\* are written
handleListThreads_query(q) ==
    /\ req[q].pc = "list_query"
    /\ \E c \in Avail, f \in ByCreatedDesc(SelectThreads(req[q].input)) :
         LET page == LimitOffset(f, PerPageOf(req[q].input), OffsetOf(req[q].input))
         IN /\ req' = [req EXCEPT ![q] =
                         [req[q] EXCEPT !.pc = "done", !.resp = 200,
                                        !.out.threads = [i \in DOMAIN page |->
                                                           ThreadJSON(page[i])]]]
            /\ Released(c)
    /\ UNCHANGED <<agents, threads, replies, status_tags, nids, hist,
                   announcements, now, tasks, admin>>

----------------------------------------------------------------------------
(* Request bodies *)

BadJSON == [json |-> FALSE]

ThreadBodies ==
    {[json |-> TRUE, title |-> "T1", body |-> "hello", tags |-> Nil]}

\* The admin names the n-th agent "agent n": distinct names
FreshName == {<<"agent", nids.a + 1>>}

StatusBodies ==
    {[json |-> TRUE, tag |-> t, reference_id |-> NULL] : t \in {"blocked", "urgent"}}
    \cup {BadJSON}

ReplyBodies == {[json |-> TRUE, body |-> "re"]}

----------------------------------------------------------------------------
(* The status tagging engine with thread, reply and cascade deletes *)

NextStatus ==
    \/ handleAdminCreateAgent(FreshName)
    \/ handleAdminDeleteThread
    \/ \E q \in Serial :
         \/ APIKeyAuth(q)
         \/ Finish(q)
         \/ handleCreateThread(q, ThreadBodies)
         \/ handleDeleteThread(q)
         \/ handleDeleteThread_exec(q)
         \/ handleCreateReply(q, ReplyBodies)
         \/ handleCreateReply_insert(q)
         \/ handleDeleteReply(q)
         \/ handleDeleteReply_exec(q)
         \/ handleCreateThreadStatus(q, StatusBodies)
         \/ handleCreateReplyStatus(q, StatusBodies)
         \/ handleCreateStatus_insert(q)
         \/ handleDeleteStatus(q)
         \/ handleDeleteStatus_exec(q)

SpecStatus == Init /\ [][NextStatus]_vars
----------------------------------------------------------------------------
(* Ownership: updates and deletes of threads, replies and status tags *)

ThreadUpdates ==
    {[json |-> TRUE, title |-> Some("T2"), body |-> Nil, tags |-> Nil],
     [json |-> TRUE, title |-> Nil, body |-> Nil, tags |-> Nil],
     [json |-> FALSE, title |-> Nil, body |-> Nil, tags |-> Nil]}

ReplyUpdates == {[json |-> TRUE, body |-> "re2"], [json |-> TRUE, body |-> ""]}

ValidStatusBodies == {[json |-> TRUE, tag |-> "blocked", reference_id |-> NULL]}

NextOwner ==
    \/ handleAdminCreateAgent(FreshName)
    \/ \E q \in Serial :
         \/ APIKeyAuth(q)
         \/ Finish(q)
         \/ handleCreateThread(q, ThreadBodies)
         \/ handleUpdateThread(q, ThreadUpdates)
         \/ handleUpdateThread_exec(q)
         \/ handleUpdateThread_read(q)
         \/ handleDeleteThread(q)
         \/ handleDeleteThread_exec(q)
         \/ handleCreateReply(q, ReplyBodies)
         \/ handleCreateReply_insert(q)
         \/ handleUpdateReply(q, ReplyUpdates)
         \/ handleUpdateReply_exec(q)
         \/ handleUpdateReply_read(q)
         \/ handleDeleteReply(q)
         \/ handleDeleteReply_exec(q)
         \/ handleCreateThreadStatus(q, ValidStatusBodies)
         \/ handleCreateStatus_insert(q)
         \/ handleDeleteStatus(q)
         \/ handleDeleteStatus_exec(q)

SpecOwner == Init /\ [][NextOwner]_vars

----------------------------------------------------------------------------
(* Access control: concurrent requests, agent creation and revocation *)

NextAuth ==
    \/ handleAdminCreateAgent(FreshName)
    \/ handleAdminRevokeAgent
    \/ \E q \in Reqs :
         \/ APIKeyAuth(q)
         \/ Finish(q)
         \/ handleCreateThread(q, ThreadBodies)
         \/ handleGetThread(q)
         \/ handleGetThread_replies(q)
         \/ handleGetThread_statuses(q)

SpecAuth == Init /\ [][NextAuth]_vars

----------------------------------------------------------------------------
(* Threads and their topic tags: create, get, update, admin toggles *)

\* Tags are sequences of characters; the lists exercise the encoder's
\* quoting, escaping and separators.
TagLists ==
    {Nil, Some(<<>>), Some(<< <<"x">> >>), Some(<< <<"y">>, <<"x">> >>),
     Some(<< <<"a", "\"">>, <<",">>, <<"\\", "]">> >>), Some(<< <<>> >>)}

TaggedThreadBodies ==
    {[json |-> TRUE, title |-> "T1", body |-> "hello", tags |-> l] : l \in TagLists}
    \cup {[json |-> TRUE, title |-> "", body |-> "hello", tags |-> Nil]}

TagUpdates ==
    {[json |-> TRUE, title |-> Nil, body |-> Nil, tags |-> Some(<< <<"z">> >>)]}

\* The admin names every agent "a1": the UNIQUE name admits one agent.
OneName == {<<"agent", 1>>}

NextTags ==
    \/ handleAdminCreateAgent(OneName)
    \/ handleAdminPinThread
    \/ handleAdminArchiveThread
    \/ \E q \in Serial :
         \/ APIKeyAuth(q)
         \/ Finish(q)
         \/ handleCreateThread(q, TaggedThreadBodies)
         \/ handleGetThread(q)
         \/ handleGetThread_replies(q)
         \/ handleGetThread_statuses(q)
         \/ handleUpdateThread(q, TagUpdates)
         \/ handleUpdateThread_exec(q)
         \/ handleUpdateThread_read(q)

SpecTags == Init /\ [][NextTags]_vars

----------------------------------------------------------------------------
(* Updates and timestamps: sparse updates, admin toggles, a ticking clock *)

SparseUpdates ==
    {[json |-> TRUE, title |-> Nil, body |-> Nil, tags |-> Nil],
     [json |-> TRUE, title |-> Some("T2"), body |-> Nil, tags |-> Nil],
     [json |-> TRUE, title |-> Nil, body |-> Nil, tags |-> Some(<<>>)]}

TaggedBodies == {[json |-> TRUE, title |-> "T1", body |-> "hello",
                  tags |-> Some(<< <<"x">> >>)]}

NextTime ==
    \/ Tick
    \/ handleAdminCreateAgent(OneName)
    \/ handleAdminPinThread
    \/ \E q \in Serial :
         \/ APIKeyAuth(q)
         \/ Finish(q)
         \/ handleCreateThread(q, TaggedBodies)
         \/ handleUpdateThread(q, SparseUpdates)
         \/ handleUpdateThread_exec(q)
         \/ handleUpdateThread_read(q)
         \/ handleCreateReply(q, ReplyBodies)
         \/ handleCreateReply_insert(q)
         \/ handleCreateThreadStatus(q, ValidStatusBodies)
         \/ handleCreateStatus_insert(q)

SpecTime == Init /\ [][NextTime]_vars

TitleUpdates == {[json |-> TRUE, title |-> Some("T2"), body |-> Nil, tags |-> Nil]}

NextModified ==
    \/ Tick
    \/ handleAdminCreateAgent(OneName)
    \/ handleAdminPinThread
    \/ handleAdminArchiveThread
    \/ \E q \in Serial :
         \/ APIKeyAuth(q)
         \/ Finish(q)
         \/ handleCreateThread(q, TaggedBodies)
         \/ handleUpdateThread(q, TitleUpdates)
         \/ handleUpdateThread_exec(q)
         \/ handleUpdateThread_read(q)
         \/ handleCreateReply(q, ReplyBodies)
         \/ handleCreateReply_insert(q)
         \/ handleUpdateReply(q, ReplyUpdates)
         \/ handleUpdateReply_exec(q)
         \/ handleUpdateReply_read(q)

SpecModified == Init /\ [][NextModified]_vars

----------------------------------------------------------------------------
(* The dependency graph: tags with references, deletes, a ticking clock *)

\* The client titles its first thread "T1" and every later one "T2"
TitledBodies ==
    {[json |-> TRUE, title |-> IF nids.t = 0 THEN "T1" ELSE "T2", body |-> "hello",
      tags |-> Nil]}

\* An id no thread or reply has
MissingId == <<"zzz", 0>>

DependencyBodies ==
    {[json |-> TRUE, tag |-> "blocked", reference_id |-> ThreadId(2)],
     [json |-> TRUE, tag |-> "depends-on", reference_id |-> ReplyId(1)],
     [json |-> TRUE, tag |-> "blocked", reference_id |-> MissingId],
     [json |-> TRUE, tag |-> "resolved", reference_id |-> ThreadId(1)],
     [json |-> TRUE, tag |-> "blocked", reference_id |-> NULL]}

NextDeps ==
    \/ Tick
    \/ handleAdminCreateAgent(OneName)
    \/ \E q \in Serial :
         \/ APIKeyAuth(q)
         \/ Finish(q)
         \/ handleCreateThread(q, TitledBodies)
         \/ handleDeleteThread(q)
         \/ handleDeleteThread_exec(q)
         \/ handleCreateReply(q, ReplyBodies)
         \/ handleCreateReply_insert(q)
         \/ handleCreateThreadStatus(q, DependencyBodies)
         \/ handleCreateReplyStatus(q, DependencyBodies)
         \/ handleCreateStatus_insert(q)
         \/ handleDependencies(q)

SpecDeps == Init /\ [][NextDeps]_vars

----------------------------------------------------------------------------
(* The status query: replies of 3, 100 and 101 characters, a ticking clock *)

\* Ten times the ten digits
Body100 ==
    "0123456789012345678901234567890123456789012345678901234567890123456789012345678901234567890123456789"

LongReplyBodies == {[json |-> TRUE, body |-> b] : b \in {"re1", Body100, Body100 \o "X"}}

KindBodies ==
    {[json |-> TRUE, tag |-> t, reference_id |-> NULL] : t \in {"blocked", "resolved"}}

QueryTags == {"blocked", "resolved", "urgent", ""}

NextQuery ==
    \/ Tick
    \/ handleAdminCreateAgent(OneName)
    \/ \E q \in Serial :
         \/ APIKeyAuth(q)
         \/ Finish(q)
         \/ handleCreateThread(q, TitledBodies)
         \/ handleCreateReply(q, LongReplyBodies)
         \/ handleCreateReply_insert(q)
         \/ handleCreateThreadStatus(q, KindBodies)
         \/ handleCreateReplyStatus(q, KindBodies)
         \/ handleCreateStatus_insert(q)
         \/ handleDeleteStatus(q)
         \/ handleDeleteStatus_exec(q)
         \/ handleDeleteThread(q)
         \/ handleDeleteThread_exec(q)
         \/ handleQueryStatus(q, QueryTags)

SpecQuery == Init /\ [][NextQuery]_vars

----------------------------------------------------------------------------
(* The active context: work tags on threads, announcements and toggles *)

WorkBodies ==
    {[json |-> TRUE, tag |-> t, reference_id |-> NULL] :
        t \in {"in-progress", "needs-review", "blocked"}}

NextActive ==
    \/ Tick
    \/ handleAdminCreateAgent(OneName)
    \/ handleAdminCreateAnnouncement
    \/ handleAdminToggleAnnouncement
    \/ \E q \in Serial :
         \/ APIKeyAuth(q)
         \/ Finish(q)
         \/ handleCreateThread(q, TitledBodies)
         \/ handleCreateThreadStatus(q, WorkBodies)
         \/ handleCreateStatus_insert(q)
         \/ handleDeleteStatus(q)
         \/ handleDeleteStatus_exec(q)
         \/ handleActiveContext(q)
         \/ handleActiveContext_inProgress(q)
         \/ handleActiveContext_needsReview(q)
         \/ handleActiveContext_blocked(q)
         \/ handleActiveContext_recent(q)

SpecActive == Init /\ [][NextActive]_vars

----------------------------------------------------------------------------
(* Listing threads with filters and pagination *)

NoFilter == [tag |-> Nil, agent |-> Nil, status |-> "", pinned |-> "", archived |-> ""]

Filters ==
    {NoFilter,
     [NoFilter EXCEPT !.status = "blocked"],
     [NoFilter EXCEPT !.tag = Some(<<"x">>), !.agent = Some(<<"agent", 1>>),
                      !.pinned = "true", !.archived = "false"]}

Paging(p, n) == [page |-> p, per_page |-> n]

\* page and per_page as sent: absent, malformed, signed, zero, small,
\* above the cap, and large enough for the offset to leave the int range
Pagings ==
    {Paging("", ""), Paging("0", "1"), Paging("1", "1"), Paging("2", "1"),
     Paging("3", "1"), Paging("-1", "2"), Paging("x2", "0"), Paging("2", "-5"),
     Paging("", "1x"), Paging("2", "+1"), Paging("", "100"), Paging("", "101"),
     Paging("", "40000"), Paging("16385", "4"), Paging("32767", "2"),
     Paging("40000", "")}

ListQueries ==
    {[page |-> pg.page, per_page |-> pg.per_page, tag |-> f.tag, agent |-> f.agent,
      status |-> f.status, pinned |-> f.pinned, archived |-> f.archived] :
        pg \in Pagings, f \in Filters}

ListedBodies ==
    {[json |-> TRUE, title |-> "T1", body |-> "hello", tags |-> l] :
        l \in {Nil, Some(<< <<"x">> >>)}}

BlockedBodies == {[json |-> TRUE, tag |-> "blocked", reference_id |-> NULL]}

PlainBodies == {[json |-> TRUE, title |-> "T1", body |-> "hello", tags |-> Nil]}

NextList ==
    \/ Tick
    \/ handleAdminCreateAgent(OneName)
    \/ handleAdminPinThread
    \/ \E q \in Serial :
         \/ APIKeyAuth(q)
         \/ Finish(q)
         \/ handleCreateThread(q, ListedBodies)
         \/ handleCreateThreadStatus(q, BlockedBodies)
         \/ handleCreateStatus_insert(q)
         \/ handleListThreads(q, ListQueries)
         \/ handleListThreads_query(q)

SpecList == Init /\ [][NextList]_vars

----------------------------------------------------------------------------
(* The detached last-seen update beside the request handlers *)

NextLastSeen ==
    \/ Tick
    \/ handleAdminCreateAgent(OneName)
    \/ handleAdminRevokeAgent
    \/ ReadClock(BOOLEAN)
    \/ UpdateLastSeen(BOOLEAN)
    \/ \E q \in Serial :
         \/ APIKeyAuth(q)
         \/ Finish(q)
         \/ handleCreateThread(q, PlainBodies)
         \/ handleAgentContext(q, AgentIds)
         \/ handleAgentContext_threads(q)
         \/ handleAgentContext_replies(q)
         \/ handleAgentContext_statuses(q)

SpecLastSeen == Init /\ [][NextLastSeen]_vars

\* The runtime schedules every started goroutine, so an update that can
\* run and succeed does not wait for ever.
SpecLastSeenFair ==
    /\ SpecLastSeen
    /\ \A id \in AgentIds :
          /\ WF_vars(\E more \in BOOLEAN : LastSeenTask_now(id, more))
          /\ \A t \in 0..MaxTime :
                WF_vars(\E more \in BOOLEAN : LastSeenTask(id, t, TRUE, more))

----------------------------------------------------------------------------
(* Detached last-seen updates of calls made one after the other: every
   pair in tasks is one task *)

NextStamps ==
    \/ Tick
    \/ handleAdminCreateAgent(OneName)
    \/ handleAdminRevokeAgent
    \/ ReadClock({FALSE})
    \/ UpdateLastSeen({FALSE})
    \/ \E q \in Serial :
         \/ APIKeyAuth(q)
         \/ Finish(q)
         \/ handleCreateThread(q, PlainBodies)

SpecStamps == Init /\ [][NextStamps]_vars

----------------------------------------------------------------------------
(* Rejected requests beside the last-seen updates *)

MixedUpdates ==
    {[json |-> TRUE, title |-> Some("T2"), body |-> Some(""), tags |-> Nil],
     [json |-> TRUE, title |-> Some(""), body |-> Nil, tags |-> Some(<<>>)],
     [json |-> TRUE, title |-> Some("T2"), body |-> Nil, tags |-> Nil],
     [json |-> TRUE, title |-> Nil, body |-> Nil, tags |-> Nil]}

NextRejected ==
    \/ Tick
    \/ handleAdminCreateAgent(OneName)
    \/ ReadClock(BOOLEAN)
    \/ UpdateLastSeen(BOOLEAN)
    \/ \E q \in Serial :
         \/ APIKeyAuth(q)
         \/ Finish(q)
         \/ handleCreateThread(q, ThreadBodies)
         \/ handleUpdateThread(q, MixedUpdates)
         \/ handleUpdateThread_exec(q)
         \/ handleUpdateThread_read(q)
         \/ handleCreateReply(q, ReplyBodies)
         \/ handleCreateReply_insert(q)
         \/ handleUpdateReply(q, ReplyUpdates)
         \/ handleUpdateReply_exec(q)
         \/ handleUpdateReply_read(q)

SpecRejected == Init /\ [][NextRejected]_vars

----------------------------------------------------------------------------
(* Two update requests of the owner at a time *)

RacingUpdates ==
    {[json |-> TRUE, title |-> Some("T2"), body |-> Some("B2"), tags |-> Nil],
     [json |-> TRUE, title |-> Some("T3"), body |-> Some("B3"), tags |-> Nil],
     [json |-> TRUE, title |-> Nil, body |-> Nil, tags |-> Some(<< <<"x">> >>)]}

NextRacing ==
    \/ handleAdminCreateAgent(OneName)
    \/ \E q \in Reqs :
         \/ APIKeyAuth(q)
         \/ Finish(q)
         \/ handleCreateThread(q, PlainBodies)
         \/ handleUpdateThread(q, RacingUpdates)
         \/ handleUpdateThread_exec(q)
         \/ handleUpdateThread_read(q)

SpecRacing == Init /\ [][NextRacing]_vars

----------------------------------------------------------------------------
(* Updates beside deletes of the same thread or reply *)

NextVanished ==
    \/ handleAdminCreateAgent(OneName)
    \/ \E q \in Reqs :
         \/ APIKeyAuth(q)
         \/ Finish(q)
         \/ handleCreateThread(q, PlainBodies)
         \/ handleUpdateThread(q, TitleUpdates)
         \/ handleUpdateThread_exec(q)
         \/ handleUpdateThread_read(q)
         \/ handleDeleteThread(q)
         \/ handleDeleteThread_exec(q)
         \/ handleCreateReply(q, ReplyBodies)
         \/ handleCreateReply_insert(q)
         \/ handleUpdateReply(q, ReplyUpdates)
         \/ handleUpdateReply_exec(q)
         \/ handleUpdateReply_read(q)
         \/ handleDeleteReply(q)
         \/ handleDeleteReply_exec(q)

SpecVanished == Init /\ [][NextVanished]_vars

----------------------------------------------------------------------------
(* Creations of replies and status tags beside deletes of their targets *)

NextOrphans ==
    \/ handleAdminCreateAgent(OneName)
    \/ \E q \in Reqs :
         \/ APIKeyAuth(q)
         \/ Finish(q)
         \/ handleCreateThread(q, PlainBodies)
         \/ handleDeleteThread(q)
         \/ handleDeleteThread_exec(q)
         \/ handleCreateReply(q, ReplyBodies)
         \/ handleCreateReply_insert(q)
         \/ handleDeleteReply(q)
         \/ handleDeleteReply_exec(q)
         \/ handleCreateThreadStatus(q, BlockedBodies)
         \/ handleCreateReplyStatus(q, BlockedBodies)
         \/ handleCreateStatus_insert(q)

SpecOrphans == Init /\ [][NextOrphans]_vars

----------------------------------------------------------------------------
(* The reading operations of the agent API and the dashboard pages beside
   the last-seen updates *)

ReadQueries == {[page |-> "", per_page |-> "", tag |-> Nil, agent |-> Nil,
                 status |-> "", pinned |-> "", archived |-> ""]}

LinkedBodies ==
    {[json |-> TRUE, tag |-> "blocked", reference_id |-> ThreadId(1)]}

NextReads ==
    \/ Tick
    \/ handleAdminCreateAgent(OneName)
    \/ ReadClock(BOOLEAN)
    \/ UpdateLastSeen(BOOLEAN)
    \/ \E q \in Serial :
         \/ APIKeyAuth(q)
         \/ Finish(q)
         \/ handleCreateThread(q, PlainBodies)
         \/ handleCreateReply(q, ReplyBodies)
         \/ handleCreateReply_insert(q)
         \/ handleCreateThreadStatus(q, LinkedBodies)
         \/ handleCreateStatus_insert(q)
         \/ handleListThreads(q, ReadQueries)
         \/ handleListThreads_query(q)
         \/ handleGetThread(q)
         \/ handleGetThread_replies(q)
         \/ handleGetThread_statuses(q)
         \/ handleQueryStatus(q, {"blocked"})
         \/ handleAgentContext(q, AgentIds)
         \/ handleAgentContext_threads(q)
         \/ handleAgentContext_replies(q)
         \/ handleAgentContext_statuses(q)
         \/ handleActiveContext(q)
         \/ handleActiveContext_inProgress(q)
         \/ handleActiveContext_needsReview(q)
         \/ handleActiveContext_blocked(q)
         \/ handleActiveContext_recent(q)
         \/ handleDependencies(q)
         \/ handleDashboardFeed(q)
         \/ handleDashboardFeed_statuses(q)
         \/ handleDashboardThread(q)
         \/ handleDashboardThread_replies(q)
         \/ handleDashboardThread_statuses(q)
         \/ handleDashboardAgent(q)
         \/ handleDashboardAgent_threads(q)
         \/ handleDashboardAgent_replies(q)
         \/ handleDashboardDependencies(q)

SpecReads == Init /\ [][NextReads]_vars

----------------------------------------------------------------------------
(* The pinned and archived flags under the admin's toggles and the agents'
   thread operations *)

NextFlags ==
    \/ handleAdminCreateAgent(OneName)
    \/ handleAdminPinThread
    \/ handleAdminArchiveThread
    \/ handleAdminDeleteThread
    \/ \E q \in Serial :
         \/ APIKeyAuth(q)
         \/ Finish(q)
         \/ handleCreateThread(q, PlainBodies)
         \/ handleUpdateThread(q, TitleUpdates)
         \/ handleUpdateThread_exec(q)
         \/ handleUpdateThread_read(q)
         \/ handleDeleteThread(q)
         \/ handleDeleteThread_exec(q)
         \/ handleCreateReply(q, ReplyBodies)
         \/ handleCreateReply_insert(q)
         \/ handleCreateThreadStatus(q, BlockedBodies)
         \/ handleCreateStatus_insert(q)

SpecFlags == Init /\ [][NextFlags]_vars

----------------------------------------------------------------------------
(* The admin panel behind AdminAuth *)

Secrets == {"s1", "s2"}

\* The cookies a client can make up: none, empty, and the token of a
\* secret the process never had
Cookies == {NoCookie, <<"">>, CreateSessionToken("s0")}

LoginForms ==
    {[username |-> "admin", password |-> "changeme"],
     [username |-> "admin", password |-> "guess"]}

NextAdmin ==
    \/ SetCookie(Cookies)
    \/ Restart(Secrets)
    \/ AdminAuth("/admin/login", handleAdminLoginPost(LoginForms))
    \/ AdminAuth("/admin/agents", handleAdminCreateAgent(OneName))
    \/ AdminAuth("/admin/agents/{id}/revoke", handleAdminRevokeAgent)
    \/ AdminAuth("/admin/threads/{id}/delete", handleAdminDeleteThread)
    \/ AdminAuth("/admin/threads/{id}/pin", handleAdminPinThread)
    \/ AdminAuth("/admin/announcements", handleAdminCreateAnnouncement)
    \/ AdminAuth("/admin/announcements/{id}/toggle", handleAdminToggleAnnouncement)
    \/ \E q \in Serial :
         \/ APIKeyAuth(q)
         \/ Finish(q)
         \/ handleCreateThread(q, PlainBodies)

SpecAdmin == Init /\ [][NextAdmin]_vars

----------------------------------------------------------------------------
(* Agents and what they authored: creation and revocation *)

NextAgents ==
    \/ handleAdminCreateAgent(FreshName)
    \/ handleAdminRevokeAgent
    \/ \E q \in Serial :
         \/ APIKeyAuth(q)
         \/ Finish(q)
         \/ handleCreateThread(q, PlainBodies)
         \/ handleCreateReply(q, ReplyBodies)
         \/ handleCreateReply_insert(q)
         \/ handleCreateThreadStatus(q, BlockedBodies)
         \/ handleCreateStatus_insert(q)

SpecAgents == Init /\ [][NextAgents]_vars

----------------------------------------------------------------------------
(* Agent names: creations with fresh and with taken names *)

BothNames == {<<"agent", 1>>, <<"agent", 2>>}

NextNames ==
    \/ handleAdminCreateAgent(BothNames)
    \/ handleAdminCreateAgent_conflict(BothNames)
    \/ handleAdminRevokeAgent
    \/ \E q \in Serial :
         \/ APIKeyAuth(q)
         \/ Finish(q)
         \/ handleCreateThread(q, PlainBodies)

SpecNames == Init /\ [][NextNames]_vars

----------------------------------------------------------------------------
(* Claims on the status tagging engine *)

StatusOps == {"createThreadStatus", "createReplyStatus"}

\* The table a status request's path value names
TargetTable(op) == IF op = "createThreadStatus" THEN threads ELSE replies

\* C1: every stored status tag has exactly one of thread-id and reply-id
\* set, never both and never neither, whatever applyStatus, removeStatus,
\* thread delete, reply delete and admin delete have run.
C1_ExactlyOneTarget ==
    \A s \in status_tags : (s.thread_id = NULL) # (s.reply_id = NULL)

\* C1 witness: a tag on a thread and a tag on a reply are stored together.
C1_Witness ==
    /\ \E s \in status_tags : s.thread_id # NULL
    /\ \E s \in status_tags : s.reply_id # NULL

\* C2: a status request on an existing thread or reply whose tag is none of
\* the six values is answered 400 at once and stores nothing; every stored
\* tag's kind is one of the six values.
C2_InvalidTagRejected ==
    [][/\ \A q \in Reqs :
            (/\ req[q].pc = "authed"
             /\ req'[q].op \in StatusOps
             /\ req'[q].target \in Ids(TargetTable(req'[q].op))
             /\ req'[q].input.json
             /\ req'[q].input.tag \notin {"acknowledged", "depends-on", "blocked",
                                          "resolved", "in-progress", "needs-review"})
            => /\ req'[q].pc = "done"
               /\ req'[q].resp = 400
               /\ status_tags' = status_tags
       /\ \A s \in status_tags' :
            s.tag \in {"acknowledged", "depends-on", "blocked",
                       "resolved", "in-progress", "needs-review"}]_vars

\* C2 witness: a request that tagged an existing thread "urgent" was
\* answered 400 while a valid tag is stored.
C2_Witness ==
    \E q \in Reqs :
       /\ req[q].pc = "done"
       /\ req[q].op = "createThreadStatus"
       /\ req[q].target \in Ids(threads)
       /\ req[q].input.json
       /\ req[q].input.tag = "urgent"
       /\ req[q].resp = 400
       /\ status_tags # {}

\* The thread a reply was posted to
ParentOf(rid) == {p[2] : p \in {x \in hist.parent : x[1] = rid}}

\* Threads that were created and whose row is gone
DeletedThreads == {ThreadId(n) : n \in 1..nids.t} \ Ids(threads)

\* C4: once a thread is deleted, no reply of it and no status tag on it or
\* on a reply that belonged to it is stored, in that state and ever after.
C4_CascadeComplete ==
    \A tid \in DeletedThreads :
       /\ \A r \in replies : r.thread_id # tid
       /\ \A s \in status_tags :
            /\ s.thread_id # tid
            /\ tid \notin ParentOf(s.reply_id)

\* C5: the thread row and its replies and status tags go in one step: no
\* step removes the row and leaves a reply or tag of the thread behind,
\* and no step removes a reply of a remaining thread other than a delete of
\* that reply.
C5_DeleteAtomic ==
    [][/\ \A t \in threads :
            t.id \notin Ids(threads') =>
               /\ \A r \in replies' : r.thread_id # t.id
               /\ \A s \in status_tags' :
                    s.thread_id # t.id /\ t.id \notin ParentOf(s.reply_id)
       /\ \A r \in replies :
            (r \notin replies' /\ r.thread_id \in Ids(threads')) =>
               \E q \in Reqs : /\ req[q].pc = "reply_delete_exec"
                               /\ req[q].target = r.id
                               /\ req'[q].pc = "done"]_vars

\* C10 as claimed: a status tag leaves the store only in a step of a
\* request made by its applying agent.
C10_OnlyApplierRemoves ==
    [][\A s \in status_tags :
          s \notin status_tags' =>
             \E q \in Reqs : req'[q] # req[q] /\ req[q].agent = s.agent_id]_vars

\* C10 amended: a status tag leaves the store only by a removeStatus
\* request of its applying agent, or in the step that deletes its target
\* thread or its target reply (the cascade of a thread or reply delete).
C10_RemovedByApplierOrCascade ==
    [][\A s \in status_tags :
          s \notin status_tags' =>
             \/ \E q \in Reqs : /\ req[q].pc = "status_delete_exec"
                                /\ req'[q].pc = "done"
                                /\ req[q].target = s.id
                                /\ req[q].agent = s.agent_id
             \/ s.thread_id \in Ids(threads) \ Ids(threads')
             \/ s.reply_id \in Ids(replies) \ Ids(replies')]_vars

\* C10 witness: a removeStatus request was answered 204 and the tag is
\* gone, while another tag is still stored.
C10_Witness ==
    \E q \in Reqs :
       /\ req[q].pc = "done"
       /\ req[q].op = "deleteStatus"
       /\ req[q].resp = 204
       /\ req[q].target \notin Ids(status_tags)
       /\ status_tags # {}
----------------------------------------------------------------------------
(* Claims on ownership and access control *)

OwnedOps == {"updateThread", "deleteThread", "updateReply", "deleteReply",
             "deleteStatus"}

\* The table an update or delete request's path value names
OwnedTable(op) ==
    IF op \in {"updateThread", "deleteThread"} THEN threads
    ELSE IF op \in {"updateReply", "deleteReply"} THEN replies
    ELSE status_tags

\* The header carries a Bearer token whose hash some agent row stores
ValidCredential(hdr) ==
    /\ hdr.scheme = "Bearer"
    /\ \E a \in agents : a.api_key_hash = <<"bcrypt", hdr.cred>>

\* The pcs at which a request has passed its ownership check and its write
\* is still to run
WritePcs == {"update_exec", "delete_exec", "reply_update_exec",
             "reply_delete_exec", "status_delete_exec"}

IssuedTo(cred) == {<<"a", cred[2]>>} \cap {a.id : a \in agents}

C7_AuthStateMachine ==
    /\ [][\A q \in Reqs :
            /\ (req[q].pc = "idle" /\ req'[q].pc # "idle")
               => IF ValidCredential(req'[q].hdr)
                  THEN /\ req'[q].pc = "authed"
                       /\ req'[q].op = "none"
                       /\ req'[q].resp = 0
                       /\ \E a \in agents :
                            /\ a.id = req'[q].agent
                            /\ a.api_key_hash = <<"bcrypt", req'[q].hdr.cred>>
                       /\ store' = store
                  ELSE /\ req'[q].pc = "done"
                       /\ req'[q].resp = 401
                       /\ req'[q].op = "none"
                       /\ req'[q].agent = NULL
                       /\ store' = store
            /\ (req[q].op # "none" /\ req'[q].pc # "idle")
               => /\ req'[q].op = req[q].op
                  /\ req'[q].agent = req[q].agent
            /\ (req[q].pc = "done" /\ req'[q].pc # "idle")
               => req'[q] = req[q]
            /\ (req[q].pc = "authed" /\ req'[q] # req[q])
               => req'[q].op # "none"]_vars
    /\ [](\A q \in Reqs :
            /\ req[q].pc = "done"
               => (req[q].op = "none") = (req[q].agent = NULL)
            /\ (req[q].pc = "done" /\ req[q].agent = NULL) => req[q].resp = 401
            /\ (req[q].pc = "done" /\ req[q].agent # NULL) => req[q].resp # 401
            /\ req[q].pc \notin {"idle", "authed", "done"} => req[q].op # "none")

\* C7 witness: one request with a token no agent holds was answered 401
\* while another, authorized, had its thread created.
C7_Witness ==
    /\ agents # {}
    /\ \E q \in Reqs :
          /\ req[q].pc = "done"
          /\ req[q].hdr = [scheme |-> "Bearer", cred |-> <<"key", 0>>]
          /\ req[q].resp = 401
          /\ req[q].op = "none"
    /\ \E q \in Reqs :
          /\ req[q].pc = "done"
          /\ req[q].op = "createThread"
          /\ req[q].resp = 201

\* C8: a token matches at most one agent row; an authorized request's
\* identity is the agent its token was generated for, and that agent is
\* the agent-id of every thread the request creates.
C8_TokenIdentity ==
    /\ [](/\ \A hdr \in Headers :
               Cardinality({a \in agents : a.api_key_hash = <<"bcrypt", hdr.cred>>}) <= 1
          /\ \A q \in Reqs :
               req[q].agent # NULL => req[q].agent = <<"a", req[q].hdr.cred[2]>>)
    /\ [][\A t \in threads' \ threads :
             \E q \in Reqs :
                /\ req[q].pc = "authed"
                /\ req'[q].op = "createThread"
                /\ req'[q].target = t.id
                /\ t.agent_id = <<"a", req[q].hdr.cred[2]>>]_vars

\* C8 witness: two agents exist and the request presenting agent 2's token
\* created a thread recorded for agent 2.
C8_Witness ==
    /\ Cardinality(agents) = 2
    /\ \E q \in Reqs :
          /\ req[q].pc = "done"
          /\ req[q].op = "createThread"
          /\ req[q].resp = 201
          /\ req[q].hdr.cred = <<"key", 2>>
          /\ Row(threads, req[q].target).agent_id = AgentId(2)

----------------------------------------------------------------------------
(* Claims on threads *)

\* The request that created a thread, as recorded when it was served
CreatedAs(tid) == CHOOSE c \in hist.created : c.id = tid

\* C9: a get of a thread that no update has written and no admin toggle
\* has touched returns the creating agent's id, the title and body it
\* supplied, its tag list (the empty list when it supplied none), pinned
\* false and archived false.
C9_CreateGetRoundTrip ==
    [][\A q \in Reqs :
          (/\ req[q].pc = "authed"
           /\ req'[q].op = "getThread"
           /\ req'[q].target \in Ids(threads)
           /\ req'[q].target \notin hist.touched)
          => LET c == CreatedAs(req'[q].target)
                 o == req'[q].out
             IN /\ req'[q].pc = "get_replies"
                /\ o.id = c.id
                /\ o.agent_id = c.agent
                /\ o.title = c.input.title
                /\ o.body = c.input.body
                /\ o.tags = (IF c.input.tags = <<>> THEN <<>> ELSE c.input.tags[1])
                /\ o.pinned = FALSE
                /\ o.archived = FALSE]_vars

\* C9 witness: a get was answered 200 with the three tags holding a quote,
\* a comma, a backslash and a bracket, for a thread never updated or
\* toggled.
C9_Witness ==
    \E q \in Reqs :
       /\ req[q].pc = "done"
       /\ req[q].op = "getThread"
       /\ req[q].resp = 200
       /\ req[q].target \notin hist.touched
       /\ req[q].out.thread.tags = << <<"a", "\"">>, <<",">>, <<"\\", "]">> >>
----------------------------------------------------------------------------
(* Claims on updates and timestamps *)

C12_UpdatedAtRefreshed ==
    [][/\ \A t \in threads, u \in threads' :
            (/\ u.id = t.id
             /\ <<u.title, u.body, u.tags, u.pinned, u.archived>>
                  # <<t.title, t.body, t.tags, t.pinned, t.archived>>)
            => u.updated_at = now
       /\ \A r \in replies, u \in replies' :
            (u.id = r.id /\ u.body # r.body) => u.updated_at = now]_vars
----------------------------------------------------------------------------
(* Claims on the dependency graph *)

\* The stored tags a dependency edge is due for
EdgeTags ==
    {s \in status_tags : /\ s.tag \in {"depends-on", "blocked"}
                         /\ s.reference_id # <<"null", 0>>}

\* The orders of the due tags with later creation times first
EdgeOrders ==
    {f \in [1..Cardinality(EdgeTags) -> EdgeTags] :
        /\ \A i, j \in DOMAIN f : i # j => f[i] # f[j]
        /\ \A i, j \in DOMAIN f : i < j => f[i].created_at >= f[j].created_at}

\* Id and reference resolve to nothing stored
Unresolved(id) == id \notin Ids(threads) \cup Ids(replies)

\* C13: in every store state the dependencyGraph request is answered 200
\* with exactly one edge per stored tag of kind depends-on or blocked with
\* a non-null reference-id, each carrying its tag's kind and reference-id,
\* in creation-time-descending order of the tags.
C13_OneEdgePerTag ==
    [][\A q \in Reqs :
          (req[q].pc = "authed" /\ req'[q].op = "dependencies")
          => /\ req'[q].resp = 200
             /\ \E f \in EdgeOrders :
                   /\ DOMAIN req'[q].out = DOMAIN f
                   /\ \A i \in DOMAIN f :
                        /\ req'[q].out[i].status = f[i].tag
                        /\ req'[q].out[i].depends_on.id = f[i].reference_id]_vars

\* C14: the edge of a tag placed on a stored reply has as source the id and
\* title of the reply's parent thread and the name of that thread's owner.
C14_ReplyEdgeSource ==
    [][\A q \in Reqs :
          (/\ req[q].pc = "authed"
           /\ req'[q].op = "dependencies"
           /\ req'[q].resp = 200)
          => \E f \in EdgeOrders :
                /\ DOMAIN req'[q].out = DOMAIN f
                /\ \A i \in DOMAIN f :
                     (/\ f[i].reply_id \in Ids(replies)
                      /\ Row(replies, f[i].reply_id).thread_id \in Ids(threads))
                     => LET parent == Row(threads, Row(replies, f[i].reply_id).thread_id)
                        IN /\ req'[q].out[i].status = f[i].tag
                           /\ req'[q].out[i].source.id = parent.id
                           /\ req'[q].out[i].source.title = parent.title
                           /\ req'[q].out[i].source.agent_name
                                = Row(agents, parent.agent_id).name]_vars

\* C15: applying a tag whose reference-id resolves to nothing succeeds and
\* stores the tag; a tag is not removed by the delete of the thread or reply
\* it references; and the dependencyGraph request is answered 200 with, for
\* every due tag whose reference-id resolves to nothing, an edge whose
\* target has that id, an empty title and an empty agent name.
C15_UnresolvedReference ==
    [][/\ \A q \in Reqs :
            (/\ req[q].pc = "status_insert"
             /\ req'[q] # req[q]
             /\ req[q].target \in Ids(threads) \cup Ids(replies)
             /\ Unresolved(req[q].input.reference_id))
            => /\ req'[q].resp = 201
               /\ \E s \in status_tags' \ status_tags :
                    s.reference_id = req[q].input.reference_id
       /\ \A s \in status_tags :
            (/\ s.reference_id \in (Ids(threads) \ Ids(threads'))
                                     \cup (Ids(replies) \ Ids(replies'))
             /\ s.thread_id \in Ids(threads') \/ s.reply_id \in Ids(replies'))
            => s \in status_tags'
       /\ \A q \in Reqs :
            (req[q].pc = "authed" /\ req'[q].op = "dependencies")
            => /\ req'[q].resp = 200
               /\ \A s \in EdgeTags :
                    Unresolved(s.reference_id)
                    => \E i \in DOMAIN req'[q].out :
                          /\ req'[q].out[i].status = s.tag
                          /\ req'[q].out[i].depends_on
                               = [id |-> s.reference_id, title |-> "",
                                  agent_name |-> <<>>]]_vars
----------------------------------------------------------------------------
(* Claims on the status query *)

\* The orders of the stored tags of kind k with later creation times first
KindOrders(k) ==
    LET S == {s \in status_tags : s.tag = k}
    IN {f \in [1..Cardinality(S) -> S] :
          /\ \A i, j \in DOMAIN f : i # j => f[i] # f[j]
          /\ \A i, j \in DOMAIN f : i < j => f[i].created_at >= f[j].created_at}

\* C16: queryByTag(k) is answered 200 with exactly the stored tags of kind
\* k, later creation times first; the preview of a tag on a stored thread
\* is the thread's title; the preview of a tag on a stored reply is the
\* reply's body when that has at most 100 characters, and otherwise its
\* first 100 characters followed by "...".
C16_QueryByTag ==
    [][\A q \in Reqs :
          (/\ req[q].pc = "authed"
           /\ req'[q].op = "queryStatus"
           /\ req'[q].input.tag # "")
          => /\ req'[q].resp = 200
             /\ \E f \in KindOrders(req'[q].input.tag) :
                   /\ DOMAIN req'[q].out = DOMAIN f
                   /\ \A i \in DOMAIN f :
                        LET o == req'[q].out[i]
                        IN /\ o.id = f[i].id
                           /\ o.tag = req'[q].input.tag
                           /\ f[i].thread_id \in Ids(threads)
                                => o.preview = Row(threads, f[i].thread_id).title
                           /\ f[i].reply_id \in Ids(replies)
                                => LET b == Row(replies, f[i].reply_id).body
                                   IN o.preview = (IF Len(b) <= 100 THEN b
                                                   ELSE SubSeq(b, 1, 100) \o "...")]_vars

\* C16 witness: a query was answered with two tags, the later one first:
\* one on a reply of 101 characters whose preview is its first 100
\* characters and "...", one on a thread whose preview is its title.
C16_Witness ==
    \E q \in Reqs :
       /\ req[q].pc = "done"
       /\ req[q].op = "queryStatus"
       /\ req[q].resp = 200
       /\ Len(req[q].out) = 2
       /\ req[q].out[1].created_at > req[q].out[2].created_at
       /\ req[q].out[1].reply_id # <<"null", 0>>
       /\ req[q].out[1].preview =
            "0123456789012345678901234567890123456789012345678901234567890123456789012345678901234567890123456789..."
       /\ req[q].out[2].preview = "T1"

----------------------------------------------------------------------------
(* Claims on the active context *)

\* The threads that a stored status tag of kind k targets
TargetedBy(k) == {s.thread_id : s \in {x \in status_tags : x.tag = k}} \cap Ids(threads)

\* f lists exactly the threads targeted by a tag of kind k, each once
ListsKind(f, k) ==
    /\ {f[i].id : i \in DOMAIN f} = TargetedBy(k)
    /\ \A i, j \in DOMAIN f : f[i].id = f[j].id => i = j

\* C17: activeContext computes its three lists independently: the list
\* of a kind holds a thread exactly when at least one stored tag of that
\* kind targets the thread at the time the list is read, whatever tags of
\* other kinds the thread carries; each thread is listed once per list, and
\* reading one list leaves the lists already read untouched.
C17_IndependentLists ==
    [][\A q \in Reqs :
         /\ (req[q].pc = "active_in_progress" /\ req'[q].pc # req[q].pc) =>
               /\ ListsKind(req'[q].out.in_progress, "in-progress")
               /\ req'[q].out.announcements = req[q].out.announcements
         /\ (req[q].pc = "active_needs_review" /\ req'[q].pc # req[q].pc) =>
               /\ ListsKind(req'[q].out.needs_review, "needs-review")
               /\ req'[q].out.in_progress = req[q].out.in_progress
         /\ (req[q].pc = "active_blocked" /\ req'[q].pc # req[q].pc) =>
               /\ ListsKind(req'[q].out.blocked, "blocked")
               /\ req'[q].out.in_progress = req[q].out.in_progress
               /\ req'[q].out.needs_review = req[q].out.needs_review
         /\ (req[q].pc = "active_recent" /\ req'[q].pc # req[q].pc) =>
               /\ req'[q].resp = 200
               /\ req'[q].out.in_progress = req[q].out.in_progress
               /\ req'[q].out.needs_review = req[q].out.needs_review
               /\ req'[q].out.blocked = req[q].out.blocked]_vars

\* C17 witness: with two threads stored, an answered activeContext lists
\* one of them under both in-progress and blocked and under needs-review
\* neither.
C17_Witness ==
    \E q \in Reqs :
       /\ req[q].pc = "done"
       /\ req[q].op = "activeContext"
       /\ req[q].resp = 200
       /\ \E i \in DOMAIN req[q].out.in_progress, j \in DOMAIN req[q].out.blocked :
            req[q].out.in_progress[i].id = req[q].out.blocked[j].id
       /\ Len(req[q].out.in_progress) = 1
       /\ Len(req[q].out.blocked) = 1
       /\ Len(req[q].out.needs_review) = 0
       /\ Len(req[q].out.recent_threads) = 2

\* C17, removal: an answered activeContext lists a thread under
\* in-progress only, after a second tag applied to it was removed.
C17_AfterRemoval ==
    \E q \in Reqs :
       /\ req[q].pc = "done"
       /\ req[q].op = "activeContext"
       /\ Len(req[q].out.in_progress) = 1
       /\ Len(req[q].out.blocked) = 0
       /\ Len(req[q].out.needs_review) = 0
       /\ nids.s = 2
       /\ Cardinality(status_tags) = 1

\* C18: an announcement is created active; a toggle flips the active flag
\* of its announcement and changes nothing else; so an announcement is
\* active exactly when it was toggled an even number of times, and the
\* announcement list of activeContext holds exactly the announcements
\* active when it is read.
C18_ListedIffActive ==
    [][/\ \A n \in 1..MaxAnnouncements :
            \A a \in announcements' :
               a.id = AnnouncementId(n) => (a.active <=> hist'.toggles[n] % 2 = 0)
       /\ \A a \in announcements' :
            \/ a \in announcements
            \/ a.id \notin Ids(announcements) /\ a.active
            \/ \E b \in announcements :
                  /\ b \notin announcements'
                  /\ a = [b EXCEPT !.active = ~b.active]
       /\ Ids(announcements) \subseteq Ids(announcements')
       /\ announcements' # announcements => UNCHANGED <<store, req>>
       /\ \A q \in Reqs :
            (req[q].pc = "authed" /\ req'[q].op = "activeContext") =>
               /\ {req'[q].out.announcements[i].id :
                     i \in DOMAIN req'[q].out.announcements}
                    = {a.id : a \in {x \in announcements : x.active}}
               /\ Len(req'[q].out.announcements)
                    = Cardinality({x \in announcements : x.active})]_vars

\* C18 witness: an answered activeContext lists an announcement that was
\* toggled twice since its creation.
C18_Witness ==
    \E q \in Reqs, n \in 1..MaxAnnouncements :
       /\ req[q].pc = "done"
       /\ req[q].op = "activeContext"
       /\ hist.toggles[n] = 2
       /\ \E i \in DOMAIN req[q].out.announcements :
            req[q].out.announcements[i].id = AnnouncementId(n)

\* C18, omission: an answered activeContext omits a stored announcement
\* that was toggled once.
C18_Omitted ==
    \E q \in Reqs, n \in 1..MaxAnnouncements :
       /\ req[q].pc = "done"
       /\ req[q].op = "activeContext"
       /\ hist.toggles[n] = 1
       /\ AnnouncementId(n) \in Ids(announcements)
       /\ req[q].out.announcements = <<>>

----------------------------------------------------------------------------
(* Claims on listing threads *)

\* A decimal integer with an optional sign
IsInteger(s) ==
    AllDigits(IF Len(s) > 0 /\ SubSeq(s, 1, 1) \in {"-", "+"} THEN SubSeq(s, 2, Len(s))
              ELSE s)

RECURSIVE DecimalValue(_, _, _)
DecimalValue(s, i, acc) ==
    IF i > Len(s) THEN acc
    ELSE DecimalValue(s, i + 1, acc * 10 + DigitValue(SubSeq(s, i, i)))

\* The integer a parameter denotes
IntegerOf(s) ==
    IF SubSeq(s, 1, 1) = "-" THEN 0 - DecimalValue(SubSeq(s, 2, Len(s)), 1, 0)
    ELSE IF SubSeq(s, 1, 1) = "+" THEN DecimalValue(SubSeq(s, 2, Len(s)), 1, 0)
    ELSE DecimalValue(s, 1, 0)

\* 20 when per_page is absent, unparseable or below 1, else min(per_page, 100)
EffectivePerPage(in) ==
    IF ~IsInteger(in.per_page) \/ IntegerOf(in.per_page) < 1 THEN 20
    ELSE IF IntegerOf(in.per_page) > 100 THEN 100 ELSE IntegerOf(in.per_page)

\* 1 when page is absent or below 1, else page
EffectivePage(in) ==
    IF ~IsInteger(in.page) \/ IntegerOf(in.page) < 1 THEN 1 ELSE IntegerOf(in.page)

\* The stored threads that match the filters of a query
MatchingThreads(in) ==
    {t \in threads :
        /\ in.tag # Nil =>
              \E i \in DOMAIN Unmarshal(t.tags) : Unmarshal(t.tags)[i] = in.tag[1]
        /\ in.agent # Nil => NameOf(t.agent_id) = in.agent
        /\ in.status # "" =>
              \E st \in status_tags : st.thread_id = t.id /\ st.tag = in.status
        /\ in.pinned # "" => t.pinned = (in.pinned \in {"true", "1"})
        /\ in.archived # "" => t.archived = (in.archived \in {"true", "1"})}

\* page holds the at most n threads that follow the first off threads of
\* the matching threads taken latest first
IsPageOf(page, in, off, n) ==
    /\ Len(page) <= n
    /\ \E f \in ByCreatedDesc(MatchingThreads(in)) :
          /\ Len(page) = (IF Len(f) - off < 0 THEN 0
                          ELSE IF Len(f) - off < n THEN Len(f) - off ELSE n)
          /\ \A i \in DOMAIN page : page[i].id = f[off + i].id

\* The page sent and the offset it asks for are representable as an int
InIntRange(in) ==
    IsInteger(in.page) =>
       /\ IntegerOf(in.page) <= MaxInt
       /\ (EffectivePage(in) - 1) * EffectivePerPage(in) <= MaxInt

\* What list threads answers, for every query or for those within the
\* int range only
ListAnswers(ranged) ==
    \A q \in Reqs :
       /\ (/\ req[q].pc = "authed"
           /\ req'[q].op = "listThreads"
           /\ ranged => InIntRange(req'[q].input)) =>
             /\ req'[q].out.per_page = EffectivePerPage(req'[q].input)
             /\ EffectivePage(req'[q].input) = 1 => req'[q].out.page = 1
             /\ req'[q].out.total = Cardinality(MatchingThreads(req'[q].input))
       /\ (/\ req[q].pc = "list_query"
           /\ req'[q].pc = "done"
           /\ ranged => InIntRange(req[q].input)) =>
             /\ req'[q].resp = 200
             /\ req'[q].out.total = req[q].out.total
             /\ req'[q].out.per_page = req[q].out.per_page
             /\ (req[q].input.page = "" \/ IsInteger(req[q].input.page)) =>
                   IsPageOf(req'[q].out.threads, req[q].input,
                            (EffectivePage(req[q].input) - 1)
                               * EffectivePerPage(req[q].input),
                            EffectivePerPage(req[q].input))

\* C19: list threads uses per_page 20 when the parameter is absent,
\* unparseable or below 1 and min(per_page, 100) otherwise, page 1 when the
\* parameter is absent or below 1; it answers at most per_page threads
\* from offset (page - 1) * per_page, latest created first; the total
\* count is the number of distinct threads that match the filters,
\* whatever the page and however many status tags of the filtered kind a
\* thread carries.
C19_Pagination == [][ListAnswers(FALSE)]_vars

\* C19 restricted to the queries whose page and offset are representable
\* as an int
C19_WithinIntRange == [][ListAnswers(TRUE)]_vars

\* C19, second page: a list answered with one thread of two from offset 1,
\* counted 1 though the only matching thread carries two blocked tags
C19_PagedAndCounted ==
    \E q \in Reqs :
       /\ req[q].pc = "done"
       /\ req[q].op = "listThreads"
       /\ req[q].input.status = "blocked"
       /\ req[q].out.total = 1
       /\ Cardinality({s \in status_tags : s.tag = "blocked"}) = 2
       /\ Cardinality(threads) = 2
       /\ Len(req[q].out.threads) = 1

----------------------------------------------------------------------------
(* Claims on the last-seen update *)

\* A step that changes the last-seen time of an agent changes no thread,
\* reply, status tag or request, and nothing else of the agent.
C20_TaskFrame ==
    [][(\E a \in agents' : /\ a.id \in Ids(agents)
                            /\ a.last_seen_at # Row(agents, a.id).last_seen_at) =>
          /\ UNCHANGED <<threads, replies, status_tags, req>>
          /\ \A a \in agents' :
                [a EXCEPT !.last_seen_at = 0]
                   = [Row(agents, a.id) EXCEPT !.last_seen_at = 0]]_vars

\* The response of agent context, for the calling agent's own record, is
\* the one given when no update has run since the call was authenticated.
C20_SameResponse ==
    [][\A q \in Reqs :
         (/\ req[q].pc = "authed"
          /\ req'[q].op = "agentContext"
          /\ req'[q].target = req[q].agent
          /\ req'[q].pc = "agent_threads") =>
            req'[q].out.agent.last_seen_at = req[q].last_seen_at]_vars

\* The response of agent context apart from the last-seen time it reports
C20_SameResponseButLastSeen ==
    [][\A q \in Reqs :
         (/\ req[q].pc = "authed"
          /\ req'[q].op = "agentContext"
          /\ req'[q].pc = "agent_threads") =>
            [req'[q].out.agent EXCEPT !.last_seen_at = 0]
               = [AgentJSON(Row(agents, req'[q].target)) EXCEPT !.last_seen_at = 0]]_vars

\* Unless an update fails, a started update leads to a last-seen time no
\* earlier than the call that started it.
C20_EventuallySeen ==
    \A id \in AgentIds, t \in 0..MaxTime :
       (<<id, NotRead>> \in tasks /\ now = t) ~>
          \/ id \in hist.failed
          \/ \E a \in agents : a.id = id /\ a.last_seen_at >= t

\* C20: the last-seen update is a detached task beside the handler: in
\* every interleaving, whether the update has succeeded, failed or not yet
\* run, the response of the authenticated request and its effect on
\* threads, replies and status tags are the same; and with fair scheduling
\* and no store failure the last-seen time is eventually updated after an
\* authenticated call.
C20_DetachedLastSeen == C20_TaskFrame /\ C20_SameResponse /\ C20_EventuallySeen

\* C20, late update: a call by an agent was answered, its update pending,
\* with the last-seen time of an earlier clock reading
C20_AnsweredBeforeUpdate ==
    \E q \in Reqs :
       /\ req[q].pc = "done"
       /\ req[q].op = "agentContext"
       /\ req[q].resp = 200
       /\ <<req[q].agent, NotRead>> \in tasks
       /\ req[q].out.agent.last_seen_at < now

----------------------------------------------------------------------------
(* Claims on the admin session *)

\* A step that does what only an admin handler does: it adds or changes
\* an agent or an announcement, or removes or changes a stored thread
AdminEffect ==
    \/ agents' # agents
    \/ announcements' # announcements
    \/ \E t \in threads : t \notin threads'

\* C21: behind AdminAuth a handler of a route other than /admin/login
\* takes effect only for a request whose admin_session cookie equals the
\* token derived from the session secret; a request with no cookie or a
\* different one is redirected to the login page and changes nothing in
\* the store; and while the secret stays the same, a token that is valid
\* stays valid.
C21_SessionGuardsAdmin ==
    [][/\ AdminEffect => admin.cookie = CreateSessionToken(admin.secret)
       /\ admin'.redirected # admin.redirected =>
             /\ admin.cookie # CreateSessionToken(admin.secret)
             /\ admin'.redirected # "/admin/login"
             /\ UNCHANGED <<agents, threads, replies, status_tags, announcements>>
             /\ admin'.cookie = admin.cookie
       /\ \A secret \in Secrets :
             (/\ validSession(CreateSessionToken(secret), admin.secret)
              /\ admin'.secret = admin.secret) =>
                validSession(CreateSessionToken(secret), admin'.secret)]_vars

\* C21 witness: an agent and a thread exist, created under a session of
\* the first secret; the process now runs with another secret, and the pin
\* request that carried the old token was redirected, the thread unpinned.
C21_Witness ==
    /\ admin.secret = "s2"
    /\ admin.cookie = CreateSessionToken("s1")
    /\ admin.redirected = "/admin/threads/{id}/pin"
    /\ agents # {}
    /\ \E t \in threads : ~t.pinned

----------------------------------------------------------------------------
(* Claims on agents *)

Usable == {hdr.cred : hdr \in {h \in Headers : Matching(h.cred) # {}}}

\* C23: no two stored agents have the same name; a creation adds one agent
\* whose name no stored agent has; a creation with a taken name is refused,
\* stores no agent and makes no key usable, whenever it runs.
C23_NamesUnique ==
    [][/\ \A a, b \in agents' : a.name = b.name => a = b
       /\ \A a \in agents' :
             a.id \notin Ids(agents) =>
                /\ \A b \in agents : b.name # a.name
                /\ Ids(agents') = Ids(agents) \cup {a.id}
       /\ hist'.refused # hist.refused =>
             /\ UNCHANGED <<agents, threads, replies, status_tags>>
             /\ Usable' = Usable
             /\ \A name \in hist'.refused \ hist.refused :
                   \E a \in agents : a.name = name]_vars

\* C23 witness: two agents with different names are stored, one of them
\* revoked, and a creation under each of the two names was refused.
C23_Witness ==
    /\ Cardinality(agents) = 2
    /\ hist.refused = {<<"agent", 1>>, <<"agent", 2>>}
    /\ hist.revoked # {}
    /\ Cardinality(Usable) = 1

----------------------------------------------------------------------------
(* Claims on the order of last-seen updates *)

\* C28: the last-seen time of an agent never decreases, in any interleaving
\* of the detached updates, and a revocation leaves it unchanged.
C28_LastSeenNeverDecreases ==
    [][/\ \A a \in agents, b \in agents' :
             a.id = b.id => b.last_seen_at >= a.last_seen_at
       /\ hist'.revoked # hist.revoked =>
             \A a \in agents, b \in agents' :
                a.id = b.id => b.last_seen_at = a.last_seen_at]_vars

----------------------------------------------------------------------------
(* Claims on rejected requests *)

ClientErrors == {400, 403, 404}

\* The step of request q that answers it 400, 403 or 404
Rejects(q) ==
    /\ req[q].pc # "done"
    /\ req'[q].pc = "done"
    /\ req'[q].resp \in ClientErrors

\* A request answered 400, 403 or 404 is answered by the first statement
\* of its handler, in a step that changes no row; an update of a thread
\* with an empty title or body is answered so whatever else it supplies.
RejectedWritesNothing ==
    \A q \in Reqs :
       /\ Rejects(q) =>
             /\ req[q].pc = "authed"
             /\ UNCHANGED <<agents, threads, replies, status_tags, announcements>>
       /\ (/\ req[q].pc = "authed"
           /\ req'[q].op = "updateThread"
           /\ req'[q].input.title = Some("") \/ req'[q].input.body = Some("")) =>
             Rejects(q)

----------------------------------------------------------------------------
(* Claims on concurrent updates of a thread *)

\* The title and body that belong together: those of the created thread
\* and those of each update that supplies both
WrittenTogether == {<<"T1", "hello">>, <<"T2", "B2">>, <<"T3", "B3">>}

\* C25: updates of one thread by its owner that run at the same time take
\* effect one after the other: each writes, in one step, every field it
\* supplies and leaves every field it does not supply as the other left
\* it, so a title and body supplied together are never stored apart and
\* the thread is the one a serial order of the updates gives.
C25_UpdatesSerialize ==
    [][/\ \A t \in threads, u \in threads' :
             (u.id = t.id /\ u # t) =>
                \E q \in Reqs :
                   /\ req[q].pc = "update_exec"
                   /\ req'[q].pc = "update_read"
                   /\ req[q].target = t.id
                   /\ req[q].agent = t.agent_id
                   /\ LET in == req[q].input
                      IN /\ u.title = IF in.title = Nil THEN t.title ELSE in.title[1]
                         /\ u.body = IF in.body = Nil THEN t.body ELSE in.body[1]
                         /\ u.tags = IF in.tags = Nil THEN t.tags
                                     ELSE Marshal(in.tags[1])
                         /\ [u EXCEPT !.updated_at = 0]
                               = [t EXCEPT !.title = u.title, !.body = u.body,
                                           !.tags = u.tags, !.updated_at = 0]
       /\ \A u \in threads' : <<u.title, u.body>> \in WrittenTogether]_vars

\* C25 witness: two updates of thread 1 by its owner, one of title and
\* body, one of the tags, were both answered 200, each with the other's
\* write in the thread it returned; the thread holds all three fields.
C25_Witness ==
    /\ \A q \in Reqs :
          /\ req[q].pc = "done"
          /\ req[q].op = "updateThread"
          /\ req[q].resp = 200
          /\ req[q].target = ThreadId(1)
          /\ req[q].out.title = "T2"
          /\ req[q].out.body = "B2"
          /\ req[q].out.tags = << <<"x">> >>
    /\ req[1].input.tags = Nil
    /\ req[2].input.title = Nil
    /\ \E t \in threads :
          /\ t.id = ThreadId(1)
          /\ t.title = "T2"
          /\ t.body = "B2"
          /\ t.tags = Marshal(<< <<"x">> >>)

----------------------------------------------------------------------------
(* Claims on updates of a deleted thread or reply *)

\* The table an update request writes to
UpdatedTable(q) == IF req[q].op = "updateThread" THEN threads ELSE replies

\* C26: an update by the owner whose thread or reply was deleted by
\* another request between the ownership check and the write creates and
\* changes no row and is answered 404, not an error of another kind.
C26_VanishedIsNotFound ==
    [][\A q \in Reqs :
         /\ (/\ req[q].pc \in {"update_exec", "reply_update_exec"}
             /\ req'[q].pc # req[q].pc
             /\ req[q].target \notin Ids(UpdatedTable(q))) =>
               UNCHANGED <<agents, threads, replies, status_tags>>
         /\ (/\ req[q].op \in {"updateThread", "updateReply"}
             /\ req[q].pc # "done"
             /\ req'[q].pc = "done"
             /\ req[q].target \notin Ids(UpdatedTable(q))) =>
               req'[q].resp = 404]_vars

\* C26 without the status of the answer: the update of a deleted thread or
\* reply creates and changes no row
C26_VanishedStaysDeleted ==
    [][\A q \in Reqs :
         (/\ req[q].pc \in {"update_exec", "reply_update_exec"}
          /\ req'[q].pc # req[q].pc
          /\ req[q].target \notin Ids(UpdatedTable(q))) =>
            UNCHANGED <<agents, threads, replies, status_tags>>]_vars

----------------------------------------------------------------------------
(* Claims on creations beside deletes *)

\* C27: in every reachable state, however the creations of replies and
\* status tags interleave with the deletes of threads and replies, the
\* thread of every stored reply is stored and the thread or reply of every
\* stored status tag is stored.
C27_NoOrphans ==
    /\ \A r \in replies : r.thread_id \in Ids(threads)
    /\ \A st \in status_tags :
          /\ st.thread_id # NULL => st.thread_id \in Ids(threads)
          /\ st.reply_id # NULL => st.reply_id \in Ids(replies)

----------------------------------------------------------------------------
(* Claims on the reading operations *)

\* The reading operations of the agent API and the dashboard pages
ReadOps ==
    {"listThreads", "getThread", "queryStatus", "agentContext", "activeContext",
     "dependencies", "dashboardFeed", "dashboardThread", "dashboardAgent",
     "dashboardDependencies"}

\* C29: no step of list threads, get thread, query by tag, agent context,
\* active context, dependency graph or a dashboard page changes an agent,
\* thread, reply, status tag or announcement; authenticating a request
\* changes none of them either and starts one last-seen update, for the
\* caller; and the update changes the last-seen time of that agent and
\* nothing else, its credential included.
C29_ReadsChangeNothing ==
    [][/\ \A q \in Reqs :
             (/\ req'[q] # req[q]
              /\ req[q].op \in ReadOps \/ req'[q].op \in ReadOps) =>
                UNCHANGED <<agents, threads, replies, status_tags, announcements, tasks>>
       /\ \A q \in Reqs :
             (req[q].pc = "idle" /\ req'[q].pc = "authed") =>
                /\ UNCHANGED <<agents, threads, replies, status_tags, announcements>>
                /\ tasks' = tasks \cup {<<req'[q].agent, NotRead>>}
       /\ (req' = req /\ tasks' # tasks) =>
             \A task \in tasks' \ tasks : <<task[1], NotRead>> \in tasks
       /\ (req' = req /\ agents' # agents /\ Ids(agents') = Ids(agents)) =>
             /\ UNCHANGED <<threads, replies, status_tags, announcements>>
             /\ \E task \in tasks :
                   agents' = {IF a.id = task[1]
                              THEN [a EXCEPT !.last_seen_at = task[2]] ELSE a :
                                a \in agents}]_vars

\* C29 witness: a thread with a reply and a status tag is stored, a get
\* thread request was answered 200 with them, and meanwhile the caller's
\* last-seen time has advanced.
C29_Witness ==
    \E q \in Reqs :
       /\ req[q].pc = "done"
       /\ req[q].op = "getThread"
       /\ req[q].resp = 200
       /\ req[q].out.replies # {}
       /\ req[q].out.statuses # {}
       /\ \E a \in agents :
             a.id = req[q].agent /\ a.last_seen_at > req[q].last_seen_at

----------------------------------------------------------------------------
(* Claims on the pinned and archived flags *)

\* C30: a thread is created unpinned and unarchived; no step of an agent's
\* request changes a flag of a stored thread; a step that changes one is
\* an admin toggle, which negates one flag of one thread (so a second
\* toggle restores it) and changes nothing else; and an admin toggle or
\* delete that names no stored thread changes no thread, reply or status
\* tag.
C30_FlagsOnlyToggled ==
    [][/\ \A t \in threads, u \in threads' :
             (u.id = t.id /\ (u.pinned # t.pinned \/ u.archived # t.archived)) =>
                /\ req' = req
                /\ u \in {[t EXCEPT !.pinned = ~t.pinned],
                          [t EXCEPT !.archived = ~t.archived]}
                /\ threads' = (threads \ {t}) \cup {u}
                /\ UNCHANGED <<agents, replies, status_tags>>
       /\ \A u \in threads' :
             u.id \notin Ids(threads) => ~u.pinned /\ ~u.archived /\ req' # req
       /\ (req' = req /\ Ids(threads') = Ids(threads) /\ agents' = agents) =>
             /\ UNCHANGED <<replies, status_tags>>
             /\ Cardinality(threads' \ threads) <= 1]_vars

\* C30 witness: thread 1 was deleted and has left its reply behind, and no
\* toggle or delete naming it has changed anything since; thread 2 is pinned
\* and not archived and carries the title an update of its owner gave it.
C30_Witness ==
    /\ ThreadId(1) \notin Ids(threads)
    /\ \E r \in replies : r.thread_id = ThreadId(1)
    /\ \E t \in threads :
          /\ t.id = ThreadId(2)
          /\ t.pinned
          /\ ~t.archived
          /\ t.title = "T2"
====
